---- MODULE Spec2Model ----
(***************************************************************************)
(* State-machine model of the three sensor firmwares of the repository:    *)
(*   soil   wokwi/soil-moisture/Soil Moisture with thingsboard.ino          *)
(*   fire   wokwi/fire-detection/Fire Detection with thingsboard.ino        *)
(*   water  unnamed/part_000 (water quality monitoring)                     *)
(* The firmwares are separate programs.  Each owns one record of state     *)
(* (soil, fire, water) whose fields carry the names of the globals of the  *)
(* source; fw says which program a behaviour runs.  One action per         *)
(* firmware models one pass through the body of the sampling branch of     *)
(* loop().                                                                 *)
(*                                                                         *)
(* Numbers.  The firmwares compute in float.  The model computes the same  *)
(* formulas exactly, in fixed point: every quantity is an integer count of *)
(* a unit 1/Scale chosen so that each division of the source is exact.     *)
(* Float rounding is therefore not modelled.                               *)
(***************************************************************************)
EXTENDS Integers, Sequences, FiniteSets, TLC

VARIABLES fw, scene, soil, fire, water, tick, runs, hist, bench

vars == <<fw, scene, soil, fire, water, tick, runs, hist, bench>>

(* ------------------------------------------------------------------------ *)
(* Bounds of the exploration.                                               *)
(* ------------------------------------------------------------------------ *)
\* Number of sampling passes of the soil firmware that are explored: in the
\* "timing" scene (moisture, read failures and pass periods vary) and in the
\* "sensors" scene (every sensor varies, the period is nominal); the "wrap"
\* scene is the "timing" scene begun shortly before millis() wraps.
MaxTicks == 9
MaxSensorTicks == 7
\* Largest value a counter of the fire and water firmwares may take.
MaxCount == 6

(* ------------------------------------------------------------------------ *)
(* Helpers shared by the three sketches.                                    *)
(* ------------------------------------------------------------------------ *)
\* Arduino's constrain(x, lo, hi).
constrain(x, lo, hi) == IF x < lo THEN lo ELSE IF x > hi THEN hi ELSE x

\* Time is counted in units of Ms milliseconds, so that the 2^32 ms range of
\* millis() fits the integers of the model checker; every duration of the
\* source is a multiple of Ms.
Ms == 2 * 2 * 2

\* unsigned long is 32 bits wide on the ESP32: millis() wraps at 2^32 ms.
ULONG == (2 ^ 29) * (8 \div Ms)

\* Unsigned 32-bit subtraction and addition, as millis() arithmetic wraps.
USub(a, b) == (a - b + ULONG) % ULONG
UAdd(a, b) == (a + b) % ULONG

ADC_MAX == 4095

\* The value a failed DHT22 read returns.  It lies outside the range of every
\* reading, and isnan() is the only test that tells it apart.
NaN == 0 - (2 ^ 24)
isnan(x) == x = NaN

\* readSensors() of each sketch reports a failed read on the serial line.
ReadFailed == "DHT22 sensor read failed"

(* ======================================================================== *)
(* SOIL FIRMWARE                                                            *)
(* ======================================================================== *)
SOIL_SENSOR_INTERVAL == 60000 \div Ms
SOIL_LOOP_INTERVAL == 1000 \div Ms
MOTOR_RUNTIME == 300000 \div Ms
BUFFER_SIZE == 2

\* Units: moisture is counted in 1/MoistureScale percent, DHT readings in
\* 1/DhtScale degree (or percent), pH in 1/PhScale.
MoistureScale == ADC_MAX * BUFFER_SIZE
DhtScale == BUFFER_SIZE
PhScale == 10 * ADC_MAX

MOISTURE_THRESHOLD_LOW == 30 * MoistureScale
MOISTURE_THRESHOLD_HIGH == 35 * MoistureScale
TEMP_HEAT_STRESS == 35 * DhtScale
HUMIDITY_HEAT_STRESS == 40 * DhtScale
PH_MIN == 6 * PhScale
PH_MAX == (75 * PhScale) \div 10

\* Debounce thresholds written as literals in checkAlertConditions.
LOW_MOISTURE_DEBOUNCE == 3
HEAT_STRESS_DEBOUNCE == 2
PH_IMBALANCE_DEBOUNCE == 5

BufferSlots == 0 .. (BUFFER_SIZE - 1)

\* float moisture = 100.0 - ((float)adcValue / ADC_MAX * 100.0), constrained.
\* Variant of calibrateMoisture: the ADC fraction not inverted.
calibrateMoistureDirect(adcValue) ==
  LET moisture == adcValue * ((100 * MoistureScale) \div ADC_MAX)
  IN  constrain(moisture, 0, 100 * MoistureScale)

calibrateMoisture(adcValue) ==
  LET moisture == 100 * MoistureScale - adcValue * ((100 * MoistureScale) \div ADC_MAX)
  IN  constrain(moisture, 0, 100 * MoistureScale)

\* Variant of calibratePH: the result not constrained.
calibratePHUnconstrained(adcValue) ==
  LET voltage     == adcValue * ((33 * PhScale) \div (10 * ADC_MAX))
      pH4_voltage == 2 * PhScale
      pH7_voltage == (15 * PhScale) \div 10
      voltsPerPH  == (pH4_voltage - pH7_voltage) \div (4 - 7)
  IN  7 * PhScale - (voltage - pH7_voltage) * (PhScale \div voltsPerPH)

\* Two-point calibration of both pH probes (soil and water use the same code).
calibratePH(adcValue) ==
  LET voltage     == adcValue * ((33 * PhScale) \div (10 * ADC_MAX))
      pH4_voltage == 2 * PhScale
      pH7_voltage == (15 * PhScale) \div 10
      voltsPerPH  == (pH4_voltage - pH7_voltage) \div (4 - 7)
      pH          == 7 * PhScale - (voltage - pH7_voltage) * (PhScale \div voltsPerPH)
  IN  constrain(pH, 0, 14 * PhScale)

\* Sum of a buffer over all BUFFER_SIZE slots.
RECURSIVE BufferSum(_, _)
BufferSum(buf, n) == IF n = 0 THEN 0 ELSE buf[n - 1] + BufferSum(buf, n - 1)

\* Variant of updateMovingAverage: the index not wrapped.
updateMovingAverageUnwrapped(s, moisture, temp, humidity) ==
  [s EXCEPT !.moistureBuffer = [@ EXCEPT ![s.bufferIndex] = moisture],
            !.tempBuffer     = [@ EXCEPT ![s.bufferIndex] = temp],
            !.humidityBuffer = [@ EXCEPT ![s.bufferIndex] = humidity],
            !.bufferIndex    = s.bufferIndex + 1]

updateMovingAverage(s, moisture, temp, humidity) ==
  [s EXCEPT !.moistureBuffer = [@ EXCEPT ![s.bufferIndex] = moisture],
            !.tempBuffer     = [@ EXCEPT ![s.bufferIndex] = temp],
            !.humidityBuffer = [@ EXCEPT ![s.bufferIndex] = humidity],
            !.bufferIndex    = (s.bufferIndex + 1) % BUFFER_SIZE]

getFilteredMoisture(s) == BufferSum(s.moistureBuffer, BUFFER_SIZE) \div BUFFER_SIZE
getFilteredTemp(s)     == BufferSum(s.tempBuffer, BUFFER_SIZE) \div BUFFER_SIZE
getFilteredHumidity(s) == BufferSum(s.humidityBuffer, BUFFER_SIZE) \div BUFFER_SIZE

\* A DHT22 read either fails (NaN) or yields a pair; the analog pins always
\* yield an ADC count.
\* A failed read returns NaN for one or both values; the analog pins are not
\* read then.
DhtFailures == {[temperature |-> NaN, humidity |-> NaN],
                [temperature |-> NaN, humidity |-> 50],
                [temperature |-> 25, humidity |-> NaN]}
SoilNaN == {[temperature |-> d.temperature, humidity |-> d.humidity,
             moistureRaw |-> 0, phRaw |-> 0] : d \in DhtFailures}
SoilMild == [temperature |-> 25 * DhtScale, humidity |-> 60 * DhtScale]
SoilHot  == [temperature |-> 40 * DhtScale, humidity |-> 30 * DhtScale]
SoilMoistureRaws == {1000, 2800, 3500}
\* ADC counts of the pH probe: 1861 is 1.500 V, 2482 is 2.000 V.
SoilPhNeutralRaws == {1861}
SoilPhRaws == {1861, 2482}
SoilSamples(dht, phRaws) ==
  {[temperature |-> d.temperature, humidity |-> d.humidity,
    moistureRaw |-> m, phRaw |-> p] : d \in dht, m \in SoilMoistureRaws, p \in phRaws}
SoilInputs(sc) ==
  SoilNaN \cup
  (IF sc \in {"timing", "wrap"} THEN SoilSamples({SoilMild}, SoilPhNeutralRaws)
   ELSE SoilSamples({SoilMild, SoilHot}, SoilPhRaws))

\* readSensors(): returns early, storing nothing, when the DHT read is NaN.
SoilStoreReadings(s, in) ==
  LET moisture == calibrateMoisture(in.moistureRaw)
      ph       == calibratePH(in.phRaw)
      u        == updateMovingAverage(s, moisture, in.temperature, in.humidity)
  IN  [u EXCEPT !.currentData =
         [@ EXCEPT !.temperature      = in.temperature,
                   !.humidity         = in.humidity,
                   !.soilMoisture     = moisture,
                   !.pH               = ph,
                   !.moistureFiltered = getFilteredMoisture(u),
                   !.tempFiltered     = getFilteredTemp(u),
                   !.humidityFiltered = getFilteredHumidity(u)]]

\* Variant of readSensors: the isnan test lost.
SoilReadSensorsUnchecked(s, in) == SoilStoreReadings(s, in)

SoilReadSensors(s, in) ==
  IF isnan(in.humidity) \/ isnan(in.temperature)
  THEN [s EXCEPT !.log = @ \cup {ReadFailed}]
  ELSE SoilStoreReadings(s, in)

\* Entry predicates of the three soil alerts, as checkAlertConditions tests them.
LowMoisturePredicate(s) == getFilteredMoisture(s) < MOISTURE_THRESHOLD_LOW
HeatStressPredicate(s)  == /\ getFilteredTemp(s) > TEMP_HEAT_STRESS
                           /\ getFilteredHumidity(s) < HUMIDITY_HEAT_STRESS
PhImbalancePredicate(s) == s.currentData.pH < PH_MIN \/ s.currentData.pH > PH_MAX

\* Variant of the low-moisture block: the alert cleared as soon as the
\* filtered moisture is not below MOISTURE_THRESHOLD_LOW.
CheckLowMoistureSymmetric(s) ==
  LET filteredMoisture == getFilteredMoisture(s)
  IN  IF filteredMoisture < MOISTURE_THRESHOLD_LOW
      THEN LET c == s.lowMoistureCount + 1
           IN  IF c >= LOW_MOISTURE_DEBOUNCE
               THEN [s EXCEPT !.lowMoistureCount = c,
                              !.irrigationAlertActive = TRUE,
                              !.currentData.irrigationAlert = TRUE,
                              !.log = IF s.irrigationAlertActive THEN @
                                      ELSE @ \cup {"ALERT 1"}]
               ELSE [s EXCEPT !.lowMoistureCount = c]
      ELSE [s EXCEPT !.lowMoistureCount = 0,
                     !.irrigationAlertActive = FALSE,
                     !.currentData.irrigationAlert = FALSE]

\* ALERT 1: LOW SOIL MOISTURE
CheckLowMoisture(s) ==
  LET filteredMoisture == getFilteredMoisture(s)
  IN  IF filteredMoisture < MOISTURE_THRESHOLD_LOW
      THEN LET c == s.lowMoistureCount + 1
           IN  IF c >= LOW_MOISTURE_DEBOUNCE
               THEN [s EXCEPT !.lowMoistureCount = c,
                              !.irrigationAlertActive = TRUE,
                              !.currentData.irrigationAlert = TRUE,
                              !.log = IF s.irrigationAlertActive THEN @
                                      ELSE @ \cup {"ALERT 1"}]
               ELSE [s EXCEPT !.lowMoistureCount = c]
      ELSE IF filteredMoisture > MOISTURE_THRESHOLD_HIGH
      THEN [s EXCEPT !.lowMoistureCount = 0,
                     !.irrigationAlertActive = FALSE,
                     !.currentData.irrigationAlert = FALSE]
      ELSE [s EXCEPT !.lowMoistureCount = s.lowMoistureCount + 1]

\* Variant of the heat-stress block: the telemetry flag not cleared with the
\* alert.
CheckHeatStressKeepingTelemetry(s) ==
  IF getFilteredTemp(s) > TEMP_HEAT_STRESS /\ getFilteredHumidity(s) < HUMIDITY_HEAT_STRESS
  THEN LET c == s.heatStressCount + 1
       IN  IF c >= HEAT_STRESS_DEBOUNCE
           THEN [s EXCEPT !.heatStressCount = c,
                          !.heatStressAlertActive = TRUE,
                          !.currentData.heatStressAlert = TRUE,
                          !.log = IF s.heatStressAlertActive THEN @
                                  ELSE @ \cup {"ALERT 2"}]
           ELSE [s EXCEPT !.heatStressCount = c]
  ELSE [s EXCEPT !.heatStressCount = 0,
                 !.heatStressAlertActive = FALSE]

\* ALERT 2: HEAT STRESS
CheckHeatStress(s) ==
  IF getFilteredTemp(s) > TEMP_HEAT_STRESS /\ getFilteredHumidity(s) < HUMIDITY_HEAT_STRESS
  THEN LET c == s.heatStressCount + 1
       IN  IF c >= HEAT_STRESS_DEBOUNCE
           THEN [s EXCEPT !.heatStressCount = c,
                          !.heatStressAlertActive = TRUE,
                          !.currentData.heatStressAlert = TRUE,
                          !.log = IF s.heatStressAlertActive THEN @
                                  ELSE @ \cup {"ALERT 2"}]
           ELSE [s EXCEPT !.heatStressCount = c]
  ELSE [s EXCEPT !.heatStressCount = 0,
                 !.heatStressAlertActive = FALSE,
                 !.currentData.heatStressAlert = FALSE]

\* ALERT 3: pH IMBALANCE
CheckPhImbalance(s) ==
  IF s.currentData.pH < PH_MIN \/ s.currentData.pH > PH_MAX
  THEN LET c == s.phImbalanceCount + 1
       IN  IF c >= PH_IMBALANCE_DEBOUNCE
           THEN [s EXCEPT !.phImbalanceCount = c,
                          !.phImbalanceAlertActive = TRUE,
                          !.currentData.phAlert = TRUE,
                          !.log = IF s.phImbalanceAlertActive THEN @
                                  ELSE @ \cup {"ALERT 3"}]
           ELSE [s EXCEPT !.phImbalanceCount = c]
  ELSE [s EXCEPT !.phImbalanceCount = 0,
                 !.phImbalanceAlertActive = FALSE,
                 !.currentData.phAlert = FALSE]

checkAlertConditions(s) == CheckPhImbalance(CheckHeatStress(CheckLowMoisture(s)))

\* controlAlerts(): yellow LED and buzzer follow the three alert flags.
controlAlerts(s) ==
  LET anyAlertActive == \/ s.irrigationAlertActive
                        \/ s.heatStressAlertActive
                        \/ s.phImbalanceAlertActive
  IN  [s EXCEPT !.pins = [@ EXCEPT !.alertLed = anyAlertActive,
                                   !.buzzer   = anyAlertActive]]

\* Variants of the start condition: started only by the pass on which the
\* alert rises; started whenever the alert is active.
MotorStartOnAlertEdge(s) == "ALERT 1" \in s.log /\ ~s.motorRunning
MotorStartIgnoringRunning(s) == s.irrigationAlertActive

\* START MOTOR: if irrigation alert active and motor not running.
MotorStartCondition(s) == s.irrigationAlertActive /\ ~s.motorRunning

\* Variant of the start: the start time not recorded.
MotorStartKeepingTime(s, currentTime) ==
  IF MotorStartCondition(s)
  THEN [s EXCEPT !.pins.motor = TRUE,
                 !.motorRunning = TRUE,
                 !.currentData.motorStatus = TRUE,
                 !.log = @ \cup {"MOTOR STARTED"}]
  ELSE s

\* START MOTOR: if irrigation alert active and motor not running.
MotorStart(s, currentTime) ==
  IF MotorStartCondition(s)
  THEN [s EXCEPT !.pins.motor = TRUE,
                 !.motorRunning = TRUE,
                 !.motorStartTime = currentTime,
                 !.currentData.motorStatus = TRUE,
                 !.log = @ \cup {"MOTOR STARTED"}]
  ELSE s

\* Variant of the timer test: strictly more than the run time.
MotorTimerOverrun(s, currentTime) == USub(currentTime, s.motorStartTime) > MOTOR_RUNTIME

\* Variant of the timer test: the time compared with a deadline.
MotorDeadlinePassed(s, currentTime) ==
  currentTime >= UAdd(s.motorStartTime, MOTOR_RUNTIME)

\* STOP MOTOR: if motor has been running for 5 minutes.
MotorTimerExpired(s, currentTime) == USub(currentTime, s.motorStartTime) >= MOTOR_RUNTIME

MotorStopTimer(s, currentTime) ==
  IF s.motorRunning /\ MotorTimerExpired(s, currentTime)
  THEN [s EXCEPT !.pins.motor = FALSE,
                 !.motorRunning = FALSE,
                 !.currentData.motorStatus = FALSE,
                 !.log = @ \cup {"MOTOR STOPPED"}]
  ELSE s

\* Variant of the early exit: the negation of the alert flag lost.
MotorEarlyExitUnderAlert(s) ==
  /\ s.irrigationAlertActive
  /\ getFilteredMoisture(s) >= MOISTURE_THRESHOLD_HIGH

\* ADDITIONAL: stop motor early if alert is cleared AND moisture recovered.
MotorEarlyExitCondition(s) ==
  /\ ~s.irrigationAlertActive
  /\ getFilteredMoisture(s) >= MOISTURE_THRESHOLD_HIGH

\* Variant of the early exit: left out of controlMotor.
MotorStopEarlyOmitted(s) == s

MotorStopEarly(s) ==
  IF s.motorRunning /\ MotorEarlyExitCondition(s)
  THEN [s EXCEPT !.pins.motor = FALSE,
                 !.motorRunning = FALSE,
                 !.currentData.motorStatus = FALSE,
                 !.log = @ \cup {"MOTOR STOPPED EARLY"}]
  ELSE s

controlMotor(s) ==
  LET currentTime == s.now
  IN  MotorStopEarly(MotorStopTimer(MotorStart(s, currentTime), currentTime))

\* publishData(): the telemetry record built from currentData.
SoilPublishData(s) ==
  [s EXCEPT !.published =
     [temperature            |-> s.currentData.tempFiltered,
      humidity               |-> s.currentData.humidityFiltered,
      soil_moisture_filtered |-> s.currentData.moistureFiltered,
      pH                     |-> s.currentData.pH,
      irrigation_alert       |-> s.currentData.irrigationAlert,
      heat_stress_alert      |-> s.currentData.heatStressAlert,
      pH_alert               |-> s.currentData.phAlert,
      motor_status           |-> s.currentData.motorStatus]]

\* Time between two sampling passes: the sampling interval, or longer when the
\* blocking WiFi/MQTT calls of loop() delay the pass.
SoilStall == 15 * SOIL_LOOP_INTERVAL
Timed(sc) == sc \in {"timing", "wrap"}
SoilPeriods(sc) ==
  IF Timed(sc) THEN {SOIL_SENSOR_INTERVAL, SOIL_SENSOR_INTERVAL + SoilStall}
  ELSE {SOIL_SENSOR_INTERVAL}
SoilTicks(sc) == IF Timed(sc) THEN MaxTicks ELSE MaxSensorTicks

\* The body of `if (millis() - lastSensorTime >= SENSOR_INTERVAL)` in loop().
SoilLoopBody(s, in, dt) ==
  LET t  == UAdd(s.now, dt)
      s0 == [s EXCEPT !.now = t, !.lastSensorTime = t, !.log = {}]
  IN  SoilPublishData(controlMotor(controlAlerts(checkAlertConditions(
        SoilReadSensors(s0, in)))))

SoilZeroData ==
  [temperature |-> 0, humidity |-> 0, soilMoisture |-> 0, pH |-> 0,
   moistureFiltered |-> 0, tempFiltered |-> 0, humidityFiltered |-> 0,
   irrigationAlert |-> FALSE, heatStressAlert |-> FALSE, phAlert |-> FALSE,
   motorStatus |-> FALSE]

\* Globals after setup(): zero-initialised buffers, counters and flags.
SoilInit ==
  [now |-> 0, lastSensorTime |-> 0, motorStartTime |-> 0,
   moistureBuffer |-> [i \in BufferSlots |-> 0],
   tempBuffer     |-> [i \in BufferSlots |-> 0],
   humidityBuffer |-> [i \in BufferSlots |-> 0],
   bufferIndex |-> 0,
   lowMoistureCount |-> 0, heatStressCount |-> 0, phImbalanceCount |-> 0,
   irrigationAlertActive |-> FALSE, heatStressAlertActive |-> FALSE,
   phImbalanceAlertActive |-> FALSE, motorRunning |-> FALSE,
   currentData |-> SoilZeroData,
   pins |-> [motor |-> FALSE, alertLed |-> FALSE, buzzer |-> FALSE],
   log |-> {},
   published |-> [temperature |-> 0, humidity |-> 0, soil_moisture_filtered |-> 0,
                  pH |-> 0, irrigation_alert |-> FALSE, heat_stress_alert |-> FALSE,
                  pH_alert |-> FALSE, motor_status |-> FALSE]]

\* History: for each alert, the number of consecutive passes, ending with the
\* latest one, on which its entry predicate held.
Streak(n, holds) == IF holds THEN n + 1 ELSE 0

SoilRuns(r, s) ==
  [r EXCEPT !.lowMoisture = Streak(@, LowMoisturePredicate(s)),
            !.heatStress  = Streak(@, HeatStressPredicate(s)),
            !.phImbalance = Streak(@, PhImbalancePredicate(s))]

RunsInit ==
  [lowMoisture |-> 0, heatStress |-> 0, phImbalance |-> 0,
   level1 |-> 0, level2 |-> 0, level3 |-> 0, caution |-> 0, critical |-> 0]

\* History: the alert flags as they were before the latest pass, the last (at
\* most BUFFER_SIZE) samples handed to updateMovingAverage, oldest first, and
\* the ADC count of the latest pH read; ran is the time, summed pass by pass
\* without wrapping, since the start of a motor that was running when the
\* latest pass began.
SoilFlags(s) ==
  [irrigation |-> s.irrigationAlertActive, heatStress |-> s.heatStressAlertActive,
   phImbalance |-> s.phImbalanceAlertActive, motor |-> s.motorRunning,
   pushed |-> << >>, phRaw |-> 0, read |-> FALSE, ran |-> 0]

SoilHistory(h, s, in, dt) ==
  LET failed == isnan(in.humidity) \/ isnan(in.temperature)
      sample == [moisture |-> calibrateMoisture(in.moistureRaw),
                 temp |-> in.temperature, humidity |-> in.humidity]
      all    == Append(h.pushed, sample)
  IN  [SoilFlags(s) EXCEPT
         !.pushed = IF failed THEN h.pushed
                    ELSE IF Len(all) > BUFFER_SIZE THEN Tail(all) ELSE all,
         !.phRaw  = IF failed THEN h.phRaw ELSE in.phRaw,
         !.read   = h.read \/ ~failed,
         !.ran    = IF s.motorRunning THEN h.ran + dt ELSE 0]

SoilTick ==
  /\ fw = "soil"
  /\ tick < SoilTicks(scene)
  /\ \E in \in SoilInputs(scene), dt \in SoilPeriods(scene) :
       /\ USub(UAdd(soil.now, dt), soil.lastSensorTime) >= SOIL_SENSOR_INTERVAL
       /\ soil' = SoilLoopBody(soil, in, dt)
       /\ runs' = SoilRuns(runs, SoilReadSensors(soil, in))
       /\ hist' = SoilHistory(hist, soil, in, dt)
  /\ tick' = tick + 1
  /\ UNCHANGED <<fw, scene, fire, water, bench>>

(* ======================================================================== *)
(* FIRE FIRMWARE                                                            *)
(* ======================================================================== *)
\* Capacity of the sliding window.  The source fixes it at 10; the model is
\* written for any capacity and is explored with a small one.
WINDOW_SIZE == 2
WindowSlots == 0 .. (WINDOW_SIZE - 1)

\* Units: temperature and humidity are counted in whole degrees / percent,
\* gas concentrations in 1/PpmScale ppm.
PpmScale == 10 * ADC_MAX

TEMP_THRESHOLD == 40
HUMIDITY_THRESHOLD == 30
GAS_BASELINE_INCREASE == 20
MQ2_BASELINE == 50
MQ7_BASELINE == 50

\* Debounce thresholds and indicator counts written as literals in
\* checkFireAlertLevels.
LEVEL1_DEBOUNCE == 5
LEVEL2_DEBOUNCE == 2
LEVEL3_DEBOUNCE == 1
LEVEL1_INDICATORS == 2
LEVEL2_INDICATORS == 3
LEVEL3_INDICATORS == 4

\* voltage = raw / ADC_MAX * 3.3; ppm = (voltage / 3.3) * 500, constrained.
convertMQ2ToPPM(rawValue) ==
  LET voltage == rawValue * ((33 * PpmScale) \div (10 * ADC_MAX))
      ppm     == ((voltage * 10) \div 33) * 500
  IN  constrain(ppm, 0, 500 * PpmScale)

convertMQ7ToPPM(rawValue) ==
  LET voltage == rawValue * ((33 * PpmScale) \div (10 * ADC_MAX))
      ppm     == ((voltage * 10) \div 33) * 100
  IN  constrain(ppm, 0, 100 * PpmScale)

FireNaN == {[temperature |-> d.temperature, humidity |-> d.humidity,
             mq2_raw |-> 0, mq7_raw |-> 0, smoke |-> FALSE] : d \in DhtFailures}
FireSample(t, h, g2, g7, k) ==
  [temperature |-> t, humidity |-> h, mq2_raw |-> g2, mq7_raw |-> g7, smoke |-> k]
\* Calm air; smoke alone; then one to five indicators: heat, dry air, MQ-2,
\* MQ-7, smoke.
FireInputs ==
  FireNaN \cup
  {FireSample(25, 50, 50, 50, FALSE),
   FireSample(25, 50, 50, 50, TRUE),
   FireSample(45, 50, 50, 50, FALSE),
   FireSample(45, 50, 50, 50, TRUE),
   FireSample(45, 20, 50, 50, FALSE),
   FireSample(45, 20, 300, 50, FALSE),
   FireSample(45, 20, 300, 50, TRUE),
   FireSample(45, 20, 300, 300, FALSE),
   FireSample(45, 20, 300, 300, TRUE)}

updateSlidingWindow(f, temp, humidity, mq2, mq7, smoke) ==
  [f EXCEPT !.tempWindow     = [@ EXCEPT ![f.windowIndex] = temp],
            !.humidityWindow = [@ EXCEPT ![f.windowIndex] = humidity],
            !.mq2Window      = [@ EXCEPT ![f.windowIndex] = mq2],
            !.mq7Window      = [@ EXCEPT ![f.windowIndex] = mq7],
            !.smokeWindow    = [@ EXCEPT ![f.windowIndex] = smoke],
            !.windowIndex    = (f.windowIndex + 1) % WINDOW_SIZE]

\* readSensors(): returns early, storing nothing, when the DHT read is NaN.
\* tempRate is counted in units of 1/TempRateScale degrees per second: the
\* source divides the temperature difference by 5.0.
TempRateScale == 5

\* The source writes the window length as the literal 10 in the index of the
\* old reading; the literal is the window length, so it follows WINDOW_SIZE.
\* Called after updateSlidingWindow has advanced windowIndex.
calculateTemperatureRateOfChange(f) ==
  IF f.windowIndex = 0
  THEN 0
  ELSE LET oldIndex == (f.windowIndex - WINDOW_SIZE + WINDOW_SIZE) % WINDOW_SIZE
           tempDifference == f.currentData.temperature - f.tempWindow[oldIndex]
       IN  (tempDifference * TempRateScale) \div 5

FireReadSensors(f, in) ==
  IF isnan(in.humidity) \/ isnan(in.temperature)
  THEN [f EXCEPT !.log = @ \cup {ReadFailed}]
  ELSE LET u == updateSlidingWindow(f, in.temperature, in.humidity, in.mq2_raw,
                                    in.mq7_raw, in.smoke)
       IN [u EXCEPT !.currentData =
          [@ EXCEPT !.temperature   = in.temperature,
                    !.humidity      = in.humidity,
                    !.mq2_raw       = in.mq2_raw,
                    !.mq7_raw       = in.mq7_raw,
                    !.mq2_ppm       = convertMQ2ToPPM(in.mq2_raw),
                    !.mq7_ppm       = convertMQ7ToPPM(in.mq7_raw),
                    !.smokeDetected = in.smoke,
                    !.tempRate      = calculateTemperatureRateOfChange(
                                        [u EXCEPT !.currentData.temperature =
                                                     in.temperature])]]

Count(b) == IF b THEN 1 ELSE 0

evaluateFireIndicators(f) ==
  LET ind == [tempHigh     |-> f.currentData.temperature > TEMP_THRESHOLD,
              humidityLow  |-> f.currentData.humidity < HUMIDITY_THRESHOLD,
              mq2Elevated  |-> f.currentData.mq2_raw > MQ2_BASELINE + GAS_BASELINE_INCREASE,
              mq7Elevated  |-> f.currentData.mq7_raw > MQ7_BASELINE + GAS_BASELINE_INCREASE,
              smokePresent |-> f.currentData.smokeDetected]
  IN  [f EXCEPT !.indicators = ind,
                !.currentData.fireIndicators =
                   Count(ind.tempHigh) + Count(ind.humidityLow) + Count(ind.mq2Elevated)
                   + Count(ind.mq7Elevated) + Count(ind.smokePresent)]

\* Entry predicates of the three levels, as checkFireAlertLevels tests them.
Level1Predicate(f) ==
  /\ \/ f.indicators.tempHigh
     \/ f.indicators.humidityLow
     \/ f.indicators.mq2Elevated
     \/ f.indicators.mq7Elevated
  /\ f.currentData.fireIndicators >= LEVEL1_INDICATORS
Level2Predicate(f) == f.currentData.fireIndicators >= LEVEL2_INDICATORS
Level3Predicate(f) == f.currentData.fireIndicators >= LEVEL3_INDICATORS

\* Variant of the level-1 block: the message printed on every pass at or
\* above the threshold.
CheckLevel1Announcing(f) ==
  IF Level1Predicate(f)
  THEN LET c == f.level1AlertCount + 1
       IN  IF c >= LEVEL1_DEBOUNCE
           THEN [f EXCEPT !.level1AlertCount = c,
                          !.level1AlertActive = TRUE,
                          !.currentData.alertLevel = 1,
                          !.log = @ \cup {"LEVEL 1 ALERT"}]
           ELSE [f EXCEPT !.level1AlertCount = c]
  ELSE [f EXCEPT !.level1AlertCount = 0, !.level1AlertActive = FALSE]

\* LEVEL 1: EARLY WARNING
CheckLevel1(f) ==
  IF Level1Predicate(f)
  THEN LET c == f.level1AlertCount + 1
       IN  IF c >= LEVEL1_DEBOUNCE
           THEN [f EXCEPT !.level1AlertCount = c,
                          !.level1AlertActive = TRUE,
                          !.currentData.alertLevel = 1,
                          !.log = IF f.level1AlertActive THEN @
                                  ELSE @ \cup {"LEVEL 1 ALERT"}]
           ELSE [f EXCEPT !.level1AlertCount = c]
  ELSE [f EXCEPT !.level1AlertCount = 0, !.level1AlertActive = FALSE]

\* LEVEL 2: ELEVATED RISK
CheckLevel2(f) ==
  IF Level2Predicate(f)
  THEN LET c == f.level2AlertCount + 1
       IN  IF c >= LEVEL2_DEBOUNCE
           THEN [f EXCEPT !.level2AlertCount = c,
                          !.level2AlertActive = TRUE,
                          !.currentData.alertLevel = 2,
                          !.level1AlertActive = TRUE,
                          !.log = IF f.level2AlertActive THEN @
                                  ELSE @ \cup {"LEVEL 2 ALERT"}]
           ELSE [f EXCEPT !.level2AlertCount = c]
  ELSE [f EXCEPT !.level2AlertCount = 0, !.level2AlertActive = FALSE]

\* Variant of the level-3 block: the lower levels not switched on with it.
CheckLevel3Alone(f) ==
  IF Level3Predicate(f)
  THEN LET c == f.level3AlertCount + 1
       IN  IF c >= LEVEL3_DEBOUNCE
           THEN [f EXCEPT !.level3AlertCount = c,
                          !.level3AlertActive = TRUE,
                          !.currentData.alertLevel = 3,
                          !.log = IF f.level3AlertActive THEN @
                                  ELSE @ \cup {"LEVEL 3 ALERT"}]
           ELSE [f EXCEPT !.level3AlertCount = c]
  ELSE [f EXCEPT !.level3AlertCount = 0, !.level3AlertActive = FALSE]

\* LEVEL 3: CRITICAL/CONFIRMED FIRE
CheckLevel3(f) ==
  IF Level3Predicate(f)
  THEN LET c == f.level3AlertCount + 1
       IN  IF c >= LEVEL3_DEBOUNCE
           THEN [f EXCEPT !.level3AlertCount = c,
                          !.level3AlertActive = TRUE,
                          !.currentData.alertLevel = 3,
                          !.level1AlertActive = TRUE,
                          !.level2AlertActive = TRUE,
                          !.log = IF f.level3AlertActive THEN @
                                  ELSE @ \cup {"LEVEL 3 ALERT"}]
           ELSE [f EXCEPT !.level3AlertCount = c]
  ELSE [f EXCEPT !.level3AlertCount = 0, !.level3AlertActive = FALSE]

\* Variant of the reset: only when no indicator at all is active.
FireResetWhenNoIndicator(f) ==
  IF f.currentData.fireIndicators < 1
  THEN [f EXCEPT !.level1AlertActive = FALSE,
                 !.level2AlertActive = FALSE,
                 !.level3AlertActive = FALSE,
                 !.currentData.alertLevel = 0]
  ELSE f

\* Reset all if no danger.
FireResetAll(f) ==
  IF f.currentData.fireIndicators < LEVEL1_INDICATORS
  THEN [f EXCEPT !.level1AlertActive = FALSE,
                 !.level2AlertActive = FALSE,
                 !.level3AlertActive = FALSE,
                 !.currentData.alertLevel = 0]
  ELSE f

checkFireAlertLevels(f) ==
  FireResetAll(CheckLevel3(CheckLevel2(CheckLevel1(evaluateFireIndicators(f)))))

\* Variant of controlAlertLEDs: at level 2 only the level-2 LED is lit.
controlAlertLEDsOnePerLevel(f) ==
  [f EXCEPT !.pins =
     [@ EXCEPT !.led3 = f.level3AlertActive,
               !.led2 = f.level3AlertActive \/ f.level2AlertActive,
               !.led1 = \/ f.level3AlertActive
                        \/ (~f.level2AlertActive /\ f.level1AlertActive)]]

controlAlertLEDs(f) ==
  [f EXCEPT !.pins =
     [@ EXCEPT !.led3 = f.level3AlertActive,
               !.led2 = f.level3AlertActive \/ f.level2AlertActive,
               !.led1 = f.level3AlertActive \/ f.level2AlertActive \/ f.level1AlertActive]]

FireControlBuzzer(f) ==
  [f EXCEPT !.pins.buzzer =
     f.level3AlertActive \/ f.level2AlertActive \/ f.level1AlertActive]

\* The body of `if (millis() - lastSensorTime >= SENSOR_INTERVAL)` in loop().
FireLoopBody(f, in) ==
  FireControlBuzzer(controlAlertLEDs(checkFireAlertLevels(
    FireReadSensors([f EXCEPT !.log = {}], in))))

\* Globals at start: zero-initialised counters, flags and sensor data.
FireInit ==
  [tempWindow     |-> [i \in WindowSlots |-> 0],
   humidityWindow |-> [i \in WindowSlots |-> 0],
   mq2Window      |-> [i \in WindowSlots |-> 0],
   mq7Window      |-> [i \in WindowSlots |-> 0],
   smokeWindow    |-> [i \in WindowSlots |-> FALSE],
   windowIndex |-> 0,
   level1AlertCount |-> 0, level2AlertCount |-> 0, level3AlertCount |-> 0,
   level1AlertActive |-> FALSE, level2AlertActive |-> FALSE, level3AlertActive |-> FALSE,
   currentData |-> [temperature |-> 0, humidity |-> 0, mq2_raw |-> 0, mq7_raw |-> 0,
                    mq2_ppm |-> 0, mq7_ppm |-> 0, smokeDetected |-> FALSE,
                    tempRate |-> 0, fireIndicators |-> 0, alertLevel |-> 0],
   indicators |-> [tempHigh |-> FALSE, humidityLow |-> FALSE, mq2Elevated |-> FALSE,
                   mq7Elevated |-> FALSE, smokePresent |-> FALSE],
   pins |-> [led1 |-> FALSE, led2 |-> FALSE, led3 |-> FALSE, buzzer |-> FALSE],
   log |-> {}]

FireRuns(r, f) ==
  [r EXCEPT !.level1 = Streak(@, Level1Predicate(f)),
            !.level2 = Streak(@, Level2Predicate(f)),
            !.level3 = Streak(@, Level3Predicate(f))]

\* Progress of a run of passes that counts, from the start, two indicators
\* on each of LEVEL1_DEBOUNCE passes (stages 1 .. LEVEL1_DEBOUNCE), then four
\* indicators (next stage), then fewer than LEVEL1_INDICATORS (last stage);
\* -1 once the passes have left that course.
FireStage(stage, g) ==
  IF stage \in 0 .. (LEVEL1_DEBOUNCE - 1) /\ g.currentData.fireIndicators = 2
  THEN stage + 1
  ELSE IF stage = LEVEL1_DEBOUNCE /\ g.currentData.fireIndicators = 4
  THEN LEVEL1_DEBOUNCE + 1
  ELSE IF stage = LEVEL1_DEBOUNCE + 1 /\ g.currentData.fireIndicators < LEVEL1_INDICATORS
  THEN LEVEL1_DEBOUNCE + 2
  ELSE 0 - 1

\* History: the level flags as they were before the latest pass, whether
\* level 2 (level 3) has been active at the end of a pass since the latest
\* pass that counted fewer than LEVEL1_INDICATORS indicators, and the stage
\* of the passes so far.
\* The temperatures of the last WINDOW_SIZE + 1 successful reads, oldest first.
LastReadings(q) ==
  IF Len(q) > WINDOW_SIZE + 1 THEN SubSeq(q, 2, Len(q)) ELSE q

FireFlags(f) ==
  [level1 |-> f.level1AlertActive, level2 |-> f.level2AlertActive,
   level3 |-> f.level3AlertActive, escalated2 |-> FALSE, escalated3 |-> FALSE,
   stage |-> 0, temps |-> << >>, read |-> FALSE]

FireHistory(h, f, g) ==
  LET danger == g.currentData.fireIndicators >= LEVEL1_INDICATORS
  IN  [level1 |-> f.level1AlertActive, level2 |-> f.level2AlertActive,
       level3 |-> f.level3AlertActive,
       escalated2 |-> danger /\ (h.escalated2 \/ g.level2AlertActive),
       escalated3 |-> danger /\ (h.escalated3 \/ g.level3AlertActive),
       stage |-> FireStage(h.stage, g),
       temps |-> IF ReadFailed \in g.log
                 THEN h.temps
                 ELSE LastReadings(Append(h.temps, g.currentData.temperature)),
       read |-> h.read \/ ReadFailed \notin g.log]

FireTick ==
  /\ fw = "fire"
  /\ \E in \in FireInputs :
       /\ fire' = FireLoopBody(fire, in)
       /\ runs' = FireRuns(runs, evaluateFireIndicators(FireReadSensors(fire, in)))
  /\ fire'.level1AlertCount <= MaxCount
  /\ fire'.level2AlertCount <= MaxCount
  /\ fire'.level3AlertCount <= MaxCount
  /\ hist' = FireHistory(hist, fire, fire')
  /\ UNCHANGED <<fw, scene, soil, water, tick, bench>>

(* ======================================================================== *)
(* WATER FIRMWARE                                                           *)
(* ======================================================================== *)
\* Capacity of the baseline arrays.  The source fixes it at 32; the model is
\* written for any capacity and is explored with a small one.
BASELINE_READINGS == 2

\* Units: pH in 1/PhScale, turbidity in 1/TurbidityScale NTU, dissolved oxygen
\* in 1/DoScale mg/L, conductivity in 1/ConductivityScale uS/cm, temperatures
\* in whole degrees.  A baseline average is counted in 1/BASELINE_READINGS of
\* the unit of its readings.
TurbidityScale == ADC_MAX
DoScale == 2500 * ADC_MAX
ConductivityScale == 10 * ADC_MAX

PH_OPTIMAL_MIN == (65 * PhScale) \div 10
PH_OPTIMAL_MAX == (85 * PhScale) \div 10
PH_CRITICAL_MIN == 4 * PhScale
PH_CRITICAL_MAX == 10 * PhScale
TURBIDITY_NORMAL == 5 * TurbidityScale
TURBIDITY_CRITICAL == 20 * TurbidityScale
DO_OPTIMAL == 7 * DoScale
DO_CRITICAL == 3 * DoScale
CONDUCTIVITY_NORMAL == 500 * ConductivityScale
CONDUCTIVITY_CRITICAL == 2000 * ConductivityScale

\* Debounce thresholds written as literals in checkContaminationEvent.
CAUTION_DEBOUNCE == 2
CRITICAL_DEBOUNCE == 1

BaselineSlots == 0 .. (BASELINE_READINGS - 1)

\* float ntu = (float)rawValue / ADC_MAX * 40.0, constrained.
calibrateTurbidity(rawValue) ==
  LET ntu == rawValue * ((40 * TurbidityScale) \div ADC_MAX)
  IN  constrain(ntu, 0, 40 * TurbidityScale)

\* do_compensated = do_measured * (1.0 + 0.0236 * (temperature - 20.0)),
\* with 0.0236 = 59/2500.
calibrateDissolvedOxygen(rawValue, temperature) ==
  LET voltage        == rawValue * ((33 * DoScale) \div (10 * ADC_MAX))
      do_measured    == ((voltage * 10) \div 33) * 15
      do_compensated == (do_measured \div 2500) * (2500 + 59 * (temperature - 20))
  IN  constrain(do_compensated, 0, 15 * DoScale)

calibrateConductivity(rawValue) ==
  LET voltage      == rawValue * ((33 * ConductivityScale) \div (10 * ADC_MAX))
      conductivity == ((voltage * 10) \div 33) * 3000
  IN  constrain(conductivity, 0, 3000 * ConductivityScale)

WaterNaN == {[airTemp |-> d.temperature, humidity |-> d.humidity, ph_raw |-> 0,
              turbidity_raw |-> 0, do_raw |-> 0, conductivity_raw |-> 0]
             : d \in DhtFailures}
WaterSample(ph, turbidity, do, conductivity) ==
  [airTemp |-> 25, humidity |-> 50, ph_raw |-> ph,
   turbidity_raw |-> turbidity, do_raw |-> do, conductivity_raw |-> conductivity]
\* Clean water; pH 9.2; pH 11; turbid water low in oxygen; brine.
WaterInputs ==
  WaterNaN \cup
  {WaterSample(1861, 200, 2000, 400),
   WaterSample(2316, 200, 2000, 400),
   WaterSample(2700, 200, 2000, 400),
   WaterSample(1861, 800, 1200, 400),
   WaterSample(1861, 200, 2000, 3000)}

\* readSensors(): returns early, storing nothing, when the DHT read is NaN.
WaterReadSensors(w, in) ==
  IF isnan(in.airTemp) \/ isnan(in.humidity)
  THEN [w EXCEPT !.log = @ \cup {ReadFailed}]
  ELSE LET waterTemp == in.airTemp + 2
       IN  [w EXCEPT !.currentData =
              [@ EXCEPT !.pH              = calibratePH(in.ph_raw),
                        !.turbidity       = calibrateTurbidity(in.turbidity_raw),
                        !.dissolvedOxygen = calibrateDissolvedOxygen(in.do_raw, waterTemp),
                        !.conductivity    = calibrateConductivity(in.conductivity_raw),
                        !.waterTemp       = waterTemp,
                        !.airTemp         = in.airTemp,
                        !.humidity        = in.humidity]]

\* Variant of the summation loop: started at slot 1.
RECURSIVE ArraySumFromOne(_, _)
ArraySumFromOne(a, n) == IF n <= 1 THEN 0 ELSE a[n - 1] + ArraySumFromOne(a, n - 1)

RECURSIVE ArraySum(_, _)
ArraySum(a, n) == IF n = 0 THEN 0 ELSE a[n - 1] + ArraySum(a, n - 1)

updateBaselineCharacterization(w) ==
  IF w.baselineComplete THEN w
  ELSE LET i == w.baselineCounter
           u == [w EXCEPT !.ph_baseline           = [@ EXCEPT ![i] = w.currentData.pH],
                          !.turbidity_baseline    = [@ EXCEPT ![i] = w.currentData.turbidity],
                          !.do_baseline           = [@ EXCEPT ![i] = w.currentData.dissolvedOxygen],
                          !.conductivity_baseline = [@ EXCEPT ![i] = w.currentData.conductivity],
                          !.baselineCounter       = i + 1]
       IN  IF u.baselineCounter >= BASELINE_READINGS
           THEN [u EXCEPT !.ph_baseline_avg = ArraySum(u.ph_baseline, BASELINE_READINGS),
                          !.turbidity_baseline_avg =
                             ArraySum(u.turbidity_baseline, BASELINE_READINGS),
                          !.do_baseline_avg = ArraySum(u.do_baseline, BASELINE_READINGS),
                          !.conductivity_baseline_avg =
                             ArraySum(u.conductivity_baseline, BASELINE_READINGS),
                          !.baselineComplete = TRUE,
                          !.log = @ \cup {"BASELINE CHARACTERIZATION COMPLETE"}]
           ELSE u

evaluateQualityIndicators(w) ==
  [w EXCEPT !.indicators =
     [ph_abnormal       |-> \/ w.currentData.pH < PH_OPTIMAL_MIN
                            \/ w.currentData.pH > PH_OPTIMAL_MAX,
      turbidity_high    |-> w.currentData.turbidity > TURBIDITY_NORMAL,
      do_low            |-> w.currentData.dissolvedOxygen < DO_OPTIMAL,
      conductivity_high |-> w.currentData.conductivity > CONDUCTIVITY_NORMAL]]

ActiveIndicators(w) ==
  Count(w.indicators.ph_abnormal) + Count(w.indicators.turbidity_high)
  + Count(w.indicators.do_low) + Count(w.indicators.conductivity_high)

\* Entry predicates of the two levels, as checkContaminationEvent tests them.
CautionPredicate(w) == ActiveIndicators(w) >= 1
CriticalPredicate(w) ==
  \/ (w.currentData.pH < PH_CRITICAL_MIN \/ w.currentData.pH > PH_CRITICAL_MAX)
  \/ w.currentData.turbidity > TURBIDITY_CRITICAL
  \/ w.currentData.dissolvedOxygen < DO_CRITICAL
  \/ w.currentData.conductivity > CONDUCTIVITY_CRITICAL

\* CAUTION LEVEL
CheckCaution(w) ==
  IF CautionPredicate(w)
  THEN LET c == w.cautionAlertCount + 1
       IN  IF c >= CAUTION_DEBOUNCE
           THEN [w EXCEPT !.cautionAlertCount = c,
                          !.cautionAlertActive = TRUE,
                          !.currentData.alertLevel = 1,
                          !.contaminationDetectionCount = @ + 1,
                          !.log = IF w.cautionAlertActive THEN @ ELSE @ \cup {"CAUTION"}]
           ELSE [w EXCEPT !.cautionAlertCount = c]
  ELSE [w EXCEPT !.cautionAlertCount = 0, !.cautionAlertActive = FALSE]

\* Variant of the critical block: the flag kept when the predicate fails.
CheckCriticalLatching(w) ==
  IF CriticalPredicate(w)
  THEN LET c == w.criticalAlertCount + 1
       IN  IF c >= CRITICAL_DEBOUNCE
           THEN [w EXCEPT !.criticalAlertCount = c,
                          !.criticalAlertActive = TRUE,
                          !.currentData.alertLevel = 2,
                          !.contaminationDetected = TRUE,
                          !.log = IF w.criticalAlertActive THEN @
                                  ELSE @ \cup {"CRITICAL ALERT"}]
           ELSE [w EXCEPT !.criticalAlertCount = c]
  ELSE [w EXCEPT !.criticalAlertCount = 0,
                 !.contaminationDetected = FALSE]

\* CRITICAL LEVEL
CheckCritical(w) ==
  IF CriticalPredicate(w)
  THEN LET c == w.criticalAlertCount + 1
       IN  IF c >= CRITICAL_DEBOUNCE
           THEN [w EXCEPT !.criticalAlertCount = c,
                          !.criticalAlertActive = TRUE,
                          !.currentData.alertLevel = 2,
                          !.contaminationDetected = TRUE,
                          !.log = IF w.criticalAlertActive THEN @
                                  ELSE @ \cup {"CRITICAL ALERT"}]
           ELSE [w EXCEPT !.criticalAlertCount = c]
  ELSE [w EXCEPT !.criticalAlertCount = 0,
                 !.criticalAlertActive = FALSE,
                 !.contaminationDetected = FALSE]

\* Variant of the final block: the alert level left as it is.
WaterNoAlertKeepingLevel(w) ==
  IF ActiveIndicators(w) = 0
  THEN [w EXCEPT !.cautionAlertActive = FALSE,
                 !.criticalAlertActive = FALSE]
  ELSE w

\* No alert
WaterNoAlert(w) ==
  IF ActiveIndicators(w) = 0
  THEN [w EXCEPT !.cautionAlertActive = FALSE,
                 !.criticalAlertActive = FALSE,
                 !.currentData.alertLevel = 0]
  ELSE w

checkContaminationEvent(w) ==
  IF ~w.baselineComplete THEN w
  ELSE WaterNoAlert(CheckCritical(CheckCaution(evaluateQualityIndicators(w))))

\* calculateWaterQualityIndex().  Weights: pH(4), Turbidity(5), DO(5),
\* Conductivity(3).
w_ph == 4
w_turbidity == 5
w_do == 5
w_conductivity == 3
total_weight == w_ph + w_turbidity + w_do + w_conductivity

\* The sub-scores are counted in 1/SubScoreScale and the index in 1/WqiScale,
\* so that the division by total_weight is exact.
SubScoreScale == 7 * PhScale
WqiScale == total_weight * SubScoreScale

\* Variant of q_ph: the sub-score not constrained.
q_ph_unconstrained(d) ==
  LET dev == IF d.pH >= 7 * PhScale THEN d.pH - 7 * PhScale ELSE 7 * PhScale - d.pH
  IN  (100 * PhScale - dev * 20) * (SubScoreScale \div PhScale)

\* q_ph = 100.0 - (fabs(currentData.pH - 7.0) * 20.0), constrained.
q_ph(d) ==
  LET dev == IF d.pH >= 7 * PhScale THEN d.pH - 7 * PhScale ELSE 7 * PhScale - d.pH
  IN  constrain(100 * PhScale - dev * 20, 0, 100 * PhScale)
        * (SubScoreScale \div PhScale)

\* q_turbidity = 100.0 - (currentData.turbidity * 5.0), constrained.
q_turbidity(d) ==
  constrain(100 * TurbidityScale - d.turbidity * 5, 0, 100 * TurbidityScale)
    * (SubScoreScale \div TurbidityScale)

\* q_do = (currentData.dissolvedOxygen / DO_OPTIMAL) * 100.0, constrained.  In
\* 1/SubScoreScale that is dissolvedOxygen * 100 / (DO_OPTIMAL / SubScoreScale)
\* = dissolvedOxygen * 2 / 5, exact as every reading of calibrateDissolvedOxygen
\* is a multiple of 15/DoScale.
q_do(d) ==
  constrain((d.dissolvedOxygen * 2) \div ((DO_OPTIMAL \div SubScoreScale) \div 50),
            0, 100 * SubScoreScale)

\* q_conductivity = 100.0 - (currentData.conductivity / 30.0), constrained.
q_conductivity(d) ==
  constrain(100 * ConductivityScale - d.conductivity \div 30, 0, 100 * ConductivityScale)
    * (SubScoreScale \div ConductivityScale)

\* The weighted mean, in 1/WqiScale.
wqi(d) ==
  w_ph * q_ph(d) + w_turbidity * q_turbidity(d)
    + w_do * q_do(d) + w_conductivity * q_conductivity(d)

\* Variant of qualityRating: the breakpoints exclusive.
qualityRatingExclusive(index) ==
  IF index > 90 * WqiScale THEN 0
  ELSE IF index > 70 * WqiScale THEN 1
  ELSE IF index > 50 * WqiScale THEN 2
  ELSE IF index > 25 * WqiScale THEN 3
  ELSE 4

\* 0=Excellent, 1=Good, 2=Moderate, 3=Poor, 4=Unsuitable.
qualityRating(index) ==
  IF index >= 90 * WqiScale THEN 0
  ELSE IF index >= 70 * WqiScale THEN 1
  ELSE IF index >= 50 * WqiScale THEN 2
  ELSE IF index >= 25 * WqiScale THEN 3
  ELSE 4

calculateWaterQualityIndex(w) ==
  [w EXCEPT !.currentData =
     [@ EXCEPT !.wqi = wqi(w.currentData),
               !.qualityRating = qualityRating(wqi(w.currentData))]]

\* Variant of controlStatusLEDs: the caution LED follows the caution flag only.
controlStatusLEDsPerFlag(w) ==
  [w EXCEPT !.pins =
     [@ EXCEPT !.ledCritical = w.criticalAlertActive,
               !.ledCaution  = w.cautionAlertActive,
               !.ledNormal   = ~w.criticalAlertActive /\ ~w.cautionAlertActive]]

controlStatusLEDs(w) ==
  [w EXCEPT !.pins =
     [@ EXCEPT !.ledCritical = w.criticalAlertActive,
               !.ledCaution  = w.criticalAlertActive \/ w.cautionAlertActive,
               !.ledNormal   = ~w.criticalAlertActive /\ ~w.cautionAlertActive]]

WaterControlBuzzer(w) ==
  [w EXCEPT !.pins.buzzer = w.criticalAlertActive \/ w.cautionAlertActive]

\* Variant of the loop body: normal operation entered on the pass that
\* completes the baseline.
WaterLoopBodyDetectingAtOnce(w, in) ==
  LET r == WaterReadSensors([w EXCEPT !.log = {}], in)
      u == updateBaselineCharacterization(r)
  IN  IF ~u.baselineComplete
      THEN u
      ELSE WaterControlBuzzer(controlStatusLEDs(
             calculateWaterQualityIndex(checkContaminationEvent(u))))

\* The body of `if (millis() - lastSensorTime >= SENSOR_INTERVAL)` in loop():
\* baseline characterization until it is complete, normal operation after.
WaterLoopBody(w, in) ==
  LET r == WaterReadSensors([w EXCEPT !.log = {}], in)
  IN  IF ~r.baselineComplete
      THEN updateBaselineCharacterization(r)
      ELSE WaterControlBuzzer(controlStatusLEDs(
             calculateWaterQualityIndex(checkContaminationEvent(r))))

\* Globals at start.
\* publishDataToThingsBoard(): nothing is built or sent without an MQTT
\* connection; with one, the telemetry record is built from currentData and
\* the flags.
Published == "Data published to ThingsBoard"
NothingPublished ==
  [pH |-> 0, turbidity_ntu |-> 0, dissolved_oxygen_mg_L |-> 0,
   conductivity_uS_cm |-> 0, water_temperature |-> 0, air_temperature |-> 0,
   humidity |-> 0, water_quality_index |-> 0, quality_rating |-> 0,
   alert_level |-> 0, caution_active |-> FALSE, critical_active |-> FALSE,
   baseline_complete |-> FALSE]
WaterTelemetry(w) ==
  [pH                    |-> w.currentData.pH,
   turbidity_ntu         |-> w.currentData.turbidity,
   dissolved_oxygen_mg_L |-> w.currentData.dissolvedOxygen,
   conductivity_uS_cm    |-> w.currentData.conductivity,
   water_temperature     |-> w.currentData.waterTemp,
   air_temperature       |-> w.currentData.airTemp,
   humidity              |-> w.currentData.humidity,
   water_quality_index   |-> w.currentData.wqi,
   quality_rating        |-> w.currentData.qualityRating,
   alert_level           |-> w.currentData.alertLevel,
   caution_active        |-> w.cautionAlertActive,
   critical_active       |-> w.criticalAlertActive,
   baseline_complete     |-> w.baselineComplete]
publishDataToThingsBoard(w, connected) ==
  IF ~connected
  THEN w
  ELSE [w EXCEPT !.published = WaterTelemetry(w),
                 !.log = @ \cup {Published}]

\* The sampling pass of loop(): the phase branch, then the publication.
\* published holds the record sent by the latest pass, like log its messages.
WaterPass(w, in, connected) ==
  publishDataToThingsBoard(
    [WaterLoopBody(w, in) EXCEPT !.published = NothingPublished], connected)

WaterInit ==
  [baselineCounter |-> 0, baselineComplete |-> FALSE,
   ph_baseline           |-> [i \in BaselineSlots |-> 0],
   turbidity_baseline    |-> [i \in BaselineSlots |-> 0],
   do_baseline           |-> [i \in BaselineSlots |-> 0],
   conductivity_baseline |-> [i \in BaselineSlots |-> 0],
   ph_baseline_avg           |-> 7 * PhScale * BASELINE_READINGS,
   turbidity_baseline_avg    |-> 2 * TurbidityScale * BASELINE_READINGS,
   do_baseline_avg           |-> 7 * DoScale * BASELINE_READINGS,
   conductivity_baseline_avg |-> 300 * ConductivityScale * BASELINE_READINGS,
   cautionAlertCount |-> 0, criticalAlertCount |-> 0, contaminationDetectionCount |-> 0,
   cautionAlertActive |-> FALSE, criticalAlertActive |-> FALSE,
   contaminationDetected |-> FALSE,
   currentData |-> [pH |-> 0, turbidity |-> 0, dissolvedOxygen |-> 0, conductivity |-> 0,
                    waterTemp |-> 0, airTemp |-> 0, humidity |-> 0, alertLevel |-> 0,
                    wqi |-> 0, qualityRating |-> 0],
   indicators |-> [ph_abnormal |-> FALSE, turbidity_high |-> FALSE, do_low |-> FALSE,
                   conductivity_high |-> FALSE],
   pins |-> [ledNormal |-> FALSE, ledCaution |-> FALSE, ledCritical |-> FALSE,
             buzzer |-> FALSE],
   published |-> NothingPublished,
   log |-> {}]

\* The predicates are evaluated on the passes that run checkContaminationEvent.
WaterRuns(r, w) ==
  IF ~w.baselineComplete THEN r
  ELSE [r EXCEPT !.caution  = Streak(@, CautionPredicate(evaluateQualityIndicators(w))),
                 !.critical = Streak(@, CriticalPredicate(w))]

\* Progress of a run of detection passes: 1 after a pass whose only indicator
\* is a pH above the optimal band and below the critical bound, begun with the
\* baseline complete, no alert active and both counters 0; 2 after a second
\* such pass; 3 after a following pass with no indicator; 0 otherwise.
WaterStage(stage, w, g) ==
  LET phOnly == /\ g.currentData.pH > PH_OPTIMAL_MAX
                /\ ActiveIndicators(g) = 1
                /\ ~CriticalPredicate(g)
      fresh  == /\ ~w.cautionAlertActive /\ ~w.criticalAlertActive
                /\ w.cautionAlertCount = 0 /\ w.criticalAlertCount = 0
  IN  IF ~w.baselineComplete THEN 0
      ELSE IF stage = 1 /\ phOnly THEN 2
      ELSE IF stage = 2 /\ ActiveIndicators(g) = 0 THEN 3
      ELSE IF fresh /\ phOnly THEN 1
      ELSE 0

\* History: the alert flags as they were before the latest pass, the readings
\* handed to the baseline arrays by the calls of updateBaselineCharacterization,
\* in order, the ADC count of the latest pH read, and the stage of the
\* detection passes.
WaterFlags(w) ==
  [caution |-> w.cautionAlertActive, critical |-> w.criticalAlertActive,
   stored |-> << >>, phRaw |-> 0, stage |-> 0, read |-> FALSE]

WaterHistory(h, w, in) ==
  LET failed == isnan(in.airTemp) \/ isnan(in.humidity)
      r      == WaterReadSensors(w, in)
      values == [pH |-> r.currentData.pH, turbidity |-> r.currentData.turbidity,
                 dissolvedOxygen |-> r.currentData.dissolvedOxygen,
                 conductivity |-> r.currentData.conductivity]
  IN  [WaterFlags(w) EXCEPT
         !.stored = IF w.baselineComplete THEN h.stored ELSE Append(h.stored, values),
         !.phRaw  = IF failed THEN h.phRaw ELSE in.ph_raw,
         !.stage  = WaterStage(h.stage, w, WaterLoopBody(w, in)),
         !.read   = h.read \/ ~failed]

WaterTick ==
  /\ fw = "water"
  /\ \E in \in WaterInputs, connected \in BOOLEAN :
       /\ water' = WaterPass(water, in, connected)
       /\ runs' = WaterRuns(runs, WaterReadSensors(water, in))
       /\ hist' = WaterHistory(hist, water, in)
  /\ water'.cautionAlertCount <= MaxCount
  /\ water'.criticalAlertCount <= MaxCount
  /\ water'.contaminationDetectionCount <= MaxCount
  /\ UNCHANGED <<fw, scene, soil, fire, tick, bench>>

(* ======================================================================== *)
(* SPECIFICATIONS                                                           *)
(* ======================================================================== *)
(* ======================================================================== *)
(* THE CALIBRATION AND SCORING FUNCTIONS ON THEIR OWN                       *)
(* ======================================================================== *)
\* bench holds one ADC count with the reading each calibration function
\* returns for it, and one set of water readings with its quality index.
\* Water temperatures handed to calibrateDissolvedOxygen: readSensors passes
\* airTemp + 2.0, and the DHT22 measures -40 .. 80 degrees.
BenchTemperatures == {(0 - 40) + 2, 0, 20, 27, 80 + 2}

BenchAt(rawValue, temperature) ==
  [raw |-> rawValue, temperature |-> temperature,
   moisture        |-> calibrateMoisture(rawValue),
   pH              |-> calibratePH(rawValue),
   turbidity       |-> calibrateTurbidity(rawValue),
   dissolvedOxygen |-> calibrateDissolvedOxygen(rawValue, temperature),
   conductivity    |-> calibrateConductivity(rawValue),
   mq2_ppm         |-> convertMQ2ToPPM(rawValue),
   mq7_ppm         |-> convertMQ7ToPPM(rawValue)]

\* ADC counts of the four water probes handed to the scoring.  They include
\* readings whose index is exactly 90, 70, 50 and 25.
BenchPhRaws == {0, 1861, 2316, ADC_MAX}
BenchTurbidityRaws == {0, 504, 2025, ADC_MAX}
BenchDoRaws == {0, 63, 238, 1638, ADC_MAX}
BenchConductivityRaws == {0, 1125, 2310, 4086, 4089, ADC_MAX}
BenchSamples ==
  {WaterSample(p, t, d, c) : p \in BenchPhRaws, t \in BenchTurbidityRaws,
                             d \in BenchDoRaws, c \in BenchConductivityRaws}

\* scored: calculateWaterQualityIndex has been applied to data.
BenchInit ==
  [cal |-> BenchAt(0, 20), data |-> WaterInit.currentData, scored |-> FALSE]

\* The calibration functions applied to the next ADC count.
BenchCalibrate ==
  /\ fw = "bench"
  /\ scene = "calibration"
  /\ bench.cal.raw < ADC_MAX
  /\ bench' = [bench EXCEPT !.cal = BenchAt(@.raw + 1, @.temperature)]
  /\ UNCHANGED <<fw, scene, soil, fire, water, tick, runs, hist>>

\* readSensors() then calculateWaterQualityIndex() on one set of ADC counts.
BenchScore ==
  /\ fw = "bench"
  /\ scene = "scoring"
  /\ \E in \in BenchSamples :
       bench' = [bench EXCEPT
                   !.data = calculateWaterQualityIndex(
                              WaterReadSensors(WaterInit, in)).currentData,
                   !.scored = TRUE]
  /\ UNCHANGED <<fw, scene, soil, fire, water, tick, runs, hist>>

Scenes == {<<"soil", "sensors">>, <<"soil", "timing">>, <<"fire", "sensors">>,
           <<"water", "sensors">>}

Init ==
  /\ \E p \in Scenes : fw = p[1] /\ scene = p[2]
  /\ soil = SoilInit
  /\ fire = FireInit
  /\ water = WaterInit
  /\ tick = 0
  /\ runs = RunsInit
  /\ hist = IF fw = "soil" THEN SoilFlags(soil)
            ELSE IF fw = "fire" THEN FireFlags(fire) ELSE WaterFlags(water)
  /\ bench = BenchInit

Next == SoilTick \/ FireTick \/ WaterTick

\* The three firmwares, each started from its reset state.
Spec == Init /\ [][Next]_vars

\* One firmware at a time.
\* The soil firmware shortly before millis() wraps, 49.7 days after reset:
\* the state that passes of calm readings settle in (buffers full of them,
\* counters 0, no alert, motor off), with the clock WrapLead before 2^32 ms.
SoilCalm ==
  [temperature |-> SoilMild.temperature, humidity |-> SoilMild.humidity,
   moistureRaw |-> 1000, phRaw |-> 1861]
RECURSIVE SoilSettle(_, _, _, _)
SoilSettle(s, r, h, n) ==
  IF n = 0 THEN [soil |-> s, runs |-> r, hist |-> h]
  ELSE SoilSettle(SoilLoopBody(s, SoilCalm, SOIL_SENSOR_INTERVAL),
                  SoilRuns(r, SoilReadSensors(s, SoilCalm)),
                  SoilHistory(h, s, SoilCalm, SOIL_SENSOR_INTERVAL), n - 1)
SoilSettled == SoilSettle(SoilInit, RunsInit, SoilFlags(SoilInit), BUFFER_SIZE + 1)
WrapLeads == {5 * SOIL_SENSOR_INTERVAL - 3, 6 * SOIL_SENSOR_INTERVAL + 1}
WrapStart ==
  /\ fw = "soil" /\ scene = "wrap"
  /\ \E lead \in WrapLeads :
       soil = [SoilSettled.soil EXCEPT !.now = ULONG - lead,
                                       !.lastSensorTime = ULONG - lead]
  /\ fire = FireInit /\ water = WaterInit
  /\ tick = 0 /\ runs = SoilSettled.runs /\ hist = SoilSettled.hist
  /\ bench = BenchInit
SpecWrap == WrapStart /\ [][SoilTick]_vars

SoilStart == Init /\ fw = "soil"
FireStart == Init /\ fw = "fire"
WaterStart == Init /\ fw = "water"
SpecSoil == SoilStart /\ [][SoilTick]_vars
SpecFire == FireStart /\ [][FireTick]_vars
SpecWater == WaterStart /\ [][WaterTick]_vars

\* The calibration functions swept over every ADC count 0 .. ADC_MAX, and the
\* scoring applied to the sample readings.
BenchStart(sc) ==
  /\ fw = "bench" /\ scene = sc
  /\ soil = SoilInit /\ fire = FireInit /\ water = WaterInit
  /\ tick = 0 /\ runs = RunsInit /\ hist = WaterFlags(water)
CalibrationStart ==
  /\ BenchStart("calibration")
  /\ \E t \in BenchTemperatures :
       bench = [BenchInit EXCEPT !.cal = BenchAt(0, t)]
ScoringStart == BenchStart("scoring") /\ bench = BenchInit
SpecCalibration == CalibrationStart /\ [][BenchCalibrate]_vars
SpecScoring == ScoringStart /\ [][BenchScore]_vars

(* ======================================================================== *)
(* PROPERTIES OF THE ALERT STATE MACHINES                                   *)
(* ======================================================================== *)
Rose(before, after) == ~before /\ after

\* A level of the fire firmware is held by the escalation latch on a pass
\* when a higher level is active at its end, or when it was already active
\* before the pass without its own counter having reached its threshold.
Level1Held ==
  \/ fire'.level2AlertActive
  \/ fire'.level3AlertActive
  \/ (fire.level1AlertActive /\ fire.level1AlertCount < LEVEL1_DEBOUNCE)
Level2Held ==
  \/ fire'.level3AlertActive
  \/ (fire.level2AlertActive /\ fire.level2AlertCount < LEVEL2_DEBOUNCE)

DebounceSoilPass ==
  /\ Rose(soil.irrigationAlertActive, soil'.irrigationAlertActive)
       <=> runs'.lowMoisture = LOW_MOISTURE_DEBOUNCE
  /\ Rose(soil.heatStressAlertActive, soil'.heatStressAlertActive)
       <=> runs'.heatStress = HEAT_STRESS_DEBOUNCE
  /\ Rose(soil.phImbalanceAlertActive, soil'.phImbalanceAlertActive)
       <=> runs'.phImbalance = PH_IMBALANCE_DEBOUNCE
DebounceFirePass ==
  /\ ~Level1Held => (Rose(fire.level1AlertActive, fire'.level1AlertActive)
                       <=> runs'.level1 = LEVEL1_DEBOUNCE)
  /\ ~Level2Held => (Rose(fire.level2AlertActive, fire'.level2AlertActive)
                       <=> runs'.level2 = LEVEL2_DEBOUNCE)
DebounceWaterPass ==
  Rose(water.cautionAlertActive, water'.cautionAlertActive)
    <=> runs'.caution = CAUTION_DEBOUNCE

\* C1: a debounced alert (soil irrigation, heat stress, pH; fire level 1 and
\* level 2 when no escalation latch holds them; water caution) goes from
\* inactive to active on a pass if and only if that pass is the one on which
\* its entry predicate has held on exactly debounceThreshold consecutive
\* passes.
C1_DebounceActivation ==
  [][/\ fw = "soil"  => DebounceSoilPass
     /\ fw = "fire"  => DebounceFirePass
     /\ fw = "water" => DebounceWaterPass]_vars

\* C2: at the end of a pass on which the entry predicate of an alert is false
\* and no escalation latch holds the alert, the alert's counter is 0 and the
\* alert is inactive; soil low moisture included whenever the filtered
\* moisture is not below MOISTURE_THRESHOLD_LOW.
C2_ResetOnClear ==
  /\ fw = "soil" =>
       /\ ~LowMoisturePredicate(soil)
            => soil.lowMoistureCount = 0 /\ ~soil.irrigationAlertActive
       /\ ~HeatStressPredicate(soil)
            => soil.heatStressCount = 0 /\ ~soil.heatStressAlertActive
       /\ ~PhImbalancePredicate(soil)
            => soil.phImbalanceCount = 0 /\ ~soil.phImbalanceAlertActive
  /\ fw = "fire" =>
       /\ ~Level1Predicate(fire) /\ ~fire.level2AlertActive /\ ~fire.level3AlertActive
            => fire.level1AlertCount = 0 /\ ~fire.level1AlertActive
       /\ ~Level2Predicate(fire) /\ ~fire.level3AlertActive
            => fire.level2AlertCount = 0 /\ ~fire.level2AlertActive
       /\ ~Level3Predicate(fire)
            => fire.level3AlertCount = 0 /\ ~fire.level3AlertActive
  /\ fw = "water" /\ water.baselineComplete =>
       /\ ~CautionPredicate(evaluateQualityIndicators(water))
            => water.cautionAlertCount = 0 /\ ~water.cautionAlertActive
       /\ ~CriticalPredicate(water)
            => water.criticalAlertCount = 0 /\ ~water.criticalAlertActive

FireHighestActive(f) ==
  IF f.level3AlertActive THEN 3
  ELSE IF f.level2AlertActive THEN 2
  ELSE IF f.level1AlertActive THEN 1 ELSE 0
WaterHighestActive(w) ==
  IF w.criticalAlertActive THEN 2 ELSE IF w.cautionAlertActive THEN 1 ELSE 0

\* C3: at the end of every pass the reported alert level equals the index of
\* the highest active level, or 0 when no level is active (fire: levels 1..3,
\* water: caution 1, critical 2).
C3_LevelIsHighestActive ==
  /\ fw = "fire"  => fire.currentData.alertLevel = FireHighestActive(fire)
  /\ fw = "water" => water.currentData.alertLevel = WaterHighestActive(water)

\* C4: at the end of every pass an active higher level implies every lower
\* level active (fire: level 3 => level 2 => level 1; water: critical =>
\* caution).
C4_HigherImpliesLower ==
  /\ fw = "fire" => /\ fire.level3AlertActive => fire.level2AlertActive
                    /\ fire.level2AlertActive => fire.level1AlertActive
  /\ fw = "water" => (water.criticalAlertActive => water.cautionAlertActive)

\* C5: in the fire firmware, from the pass on which level 2 (level 3) becomes
\* active until the first pass with fireIndicators < 2, every lower level is
\* active at the end of each pass; on the pass with fireIndicators < 2 all
\* levels are inactive.
C5_LatchUntilNoDanger ==
  fw = "fire" =>
    /\ hist.escalated3 => fire.level2AlertActive /\ fire.level1AlertActive
    /\ hist.escalated2 => fire.level1AlertActive
    /\ fire.currentData.fireIndicators < LEVEL1_INDICATORS
         => /\ ~fire.level1AlertActive
            /\ ~fire.level2AlertActive
            /\ ~fire.level3AlertActive

\* C6: at the end of a pass on which the number of active indicators is below
\* the lowest level's threshold (fire: fireIndicators < 2; water, once the
\* baseline is complete: no active indicator) every level flag is inactive,
\* every level counter is 0 and the alert level is 0.
C6_GlobalReset ==
  /\ fw = "fire" /\ fire.currentData.fireIndicators < LEVEL1_INDICATORS =>
       /\ ~fire.level1AlertActive /\ ~fire.level2AlertActive /\ ~fire.level3AlertActive
       /\ fire.level1AlertCount = 0
       /\ fire.level2AlertCount = 0
       /\ fire.level3AlertCount = 0
       /\ fire.currentData.alertLevel = 0
  /\ fw = "water" /\ water.baselineComplete
       /\ ActiveIndicators(evaluateQualityIndicators(water)) = 0 =>
       /\ ~water.cautionAlertActive /\ ~water.criticalAlertActive
       /\ water.cautionAlertCount = 0
       /\ water.criticalAlertCount = 0
       /\ water.currentData.alertLevel = 0

\* A pass with fewer than two indicators that found level 3 active.
C6_ResetFromLevel3 ==
  /\ fw = "fire"
  /\ hist.level3
  /\ fire.currentData.fireIndicators < LEVEL1_INDICATORS

(* ======================================================================== *)
(* PROPERTIES OF THE MOTOR TIMER                                            *)
(* ======================================================================== *)
MotorStarted == ~soil.motorRunning /\ soil'.motorRunning

\* C7 as stated: the motor goes from off to running only on a pass on which
\* the irrigation alert goes from inactive to active.
C7_StartOnlyOnAlertEdge ==
  [][MotorStarted => Rose(soil.irrigationAlertActive, soil'.irrigationAlertActive)]_vars

\* C7 amended: the motor goes from off to running on a pass if and only if it
\* was off before the pass and the irrigation alert is active after the
\* pass's alert evaluation, whether the alert rose on this pass or earlier.
C7_StartWhileAlertActive ==
  [][MotorStarted <=> (~soil.motorRunning /\ soil'.irrigationAlertActive)]_vars

\* The motor is started on a pass that found the alert already active.
C7_RestartUnderStandingAlert ==
  /\ "MOTOR STARTED" \in soil.log
  /\ hist.irrigation
  /\ ~hist.motor

\* C8: a motor running since motorStartTime is off at the end of the first
\* pass whose time is at least motorStartTime + MOTOR_RUNTIME, whatever the
\* irrigation alert.
C8_OffWhenRuntimeElapsed ==
  [][soil.motorRunning /\ USub(soil'.now, soil.motorStartTime) >= MOTOR_RUNTIME
       => ~soil'.motorRunning]_vars

\* The timer stopped the motor while the irrigation alert was still active.
C8_TimerStopUnderAlert ==
  /\ "MOTOR STOPPED" \in soil.log
  /\ soil.irrigationAlertActive
  /\ ~soil.motorRunning

\* C9: while the motor is running no pass restarts it: motorStartTime is
\* unchanged and the start branch is not taken, whatever the alert state.
C9_NoRestartWhileRunning ==
  [][soil.motorRunning => /\ soil'.motorStartTime = soil.motorStartTime
                          /\ "MOTOR STARTED" \notin soil'.log]_vars

\* A pass that found the motor running and leaves it running under an active
\* irrigation alert.
C9_RunningUnderAlert ==
  /\ hist.motor
  /\ soil.motorRunning
  /\ soil.irrigationAlertActive
  /\ soil.now # soil.motorStartTime

\* C10: a running motor is switched off on a pass if and only if, on that
\* pass, the elapsed run time is at least MOTOR_RUNTIME or the irrigation
\* alert is inactive and the filtered moisture is at least
\* MOISTURE_THRESHOLD_HIGH.
C10_OffExactlyOnTimerOrEarlyExit ==
  [][soil.motorRunning =>
       (~soil'.motorRunning <=>
          \/ USub(soil'.now, soil.motorStartTime) >= MOTOR_RUNTIME
          \/ /\ ~soil'.irrigationAlertActive
             /\ getFilteredMoisture(soil') >= MOISTURE_THRESHOLD_HIGH)]_vars

\* The early exit stopped the motor before its run time had elapsed.
C10_EarlyStop ==
  /\ "MOTOR STOPPED EARLY" \in soil.log
  /\ hist.motor
  /\ ~soil.motorRunning
  /\ USub(soil.now, soil.motorStartTime) < MOTOR_RUNTIME

(* ======================================================================== *)
(* PROPERTIES OF FAILED READS AND OF THE BUFFERS                            *)
(* ======================================================================== *)
SoilRejected ==
  /\ soil'.moistureBuffer = soil.moistureBuffer
  /\ soil'.tempBuffer = soil.tempBuffer
  /\ soil'.humidityBuffer = soil.humidityBuffer
  /\ soil'.bufferIndex = soil.bufferIndex
  /\ soil'.lowMoistureCount = soil.lowMoistureCount
  /\ soil'.heatStressCount = soil.heatStressCount
  /\ soil'.phImbalanceCount = soil.phImbalanceCount
  /\ soil'.irrigationAlertActive = soil.irrigationAlertActive
  /\ soil'.heatStressAlertActive = soil.heatStressAlertActive
  /\ soil'.phImbalanceAlertActive = soil.phImbalanceAlertActive
  /\ soil'.motorRunning = soil.motorRunning
  /\ soil'.motorStartTime = soil.motorStartTime
FireRejected ==
  /\ fire'.tempWindow = fire.tempWindow
  /\ fire'.humidityWindow = fire.humidityWindow
  /\ fire'.mq2Window = fire.mq2Window
  /\ fire'.mq7Window = fire.mq7Window
  /\ fire'.smokeWindow = fire.smokeWindow
  /\ fire'.windowIndex = fire.windowIndex
  /\ fire'.level1AlertCount = fire.level1AlertCount
  /\ fire'.level2AlertCount = fire.level2AlertCount
  /\ fire'.level3AlertCount = fire.level3AlertCount
  /\ fire'.level1AlertActive = fire.level1AlertActive
  /\ fire'.level2AlertActive = fire.level2AlertActive
  /\ fire'.level3AlertActive = fire.level3AlertActive
  /\ fire'.currentData.alertLevel = fire.currentData.alertLevel
WaterRejected ==
  /\ water'.ph_baseline = water.ph_baseline
  /\ water'.turbidity_baseline = water.turbidity_baseline
  /\ water'.do_baseline = water.do_baseline
  /\ water'.conductivity_baseline = water.conductivity_baseline
  /\ water'.baselineCounter = water.baselineCounter
  /\ water'.cautionAlertCount = water.cautionAlertCount
  /\ water'.criticalAlertCount = water.criticalAlertCount
  /\ water'.cautionAlertActive = water.cautionAlertActive
  /\ water'.criticalAlertActive = water.criticalAlertActive
  /\ water'.currentData.alertLevel = water.currentData.alertLevel

\* C11: a pass whose DHT read fails changes nothing: the moving-average
\* buffers, the sliding window and their indices, the baseline arrays and
\* baselineCounter, every debounce counter, every alert flag, the alert level
\* and the motor state are as before the pass.
C11_FailedReadRejected ==
  [][/\ fw = "soil"  /\ ReadFailed \in soil'.log  => SoilRejected
     /\ fw = "fire"  /\ ReadFailed \in fire'.log  => FireRejected
     /\ fw = "water" /\ ReadFailed \in water'.log => WaterRejected]_vars

\* C12: NaN is never stored: no slot of the soil buffers, of the fire window
\* or of the water baseline arrays, and no field of currentData that the
\* evaluation reads, holds NaN, whatever reads failed.
C12_NaNNeverStored ==
  /\ \A i \in BufferSlots :
       /\ ~isnan(soil.moistureBuffer[i])
       /\ ~isnan(soil.tempBuffer[i])
       /\ ~isnan(soil.humidityBuffer[i])
  /\ ~isnan(soil.currentData.temperature) /\ ~isnan(soil.currentData.humidity)
  /\ ~isnan(soil.currentData.soilMoisture) /\ ~isnan(soil.currentData.pH)
  /\ \A i \in WindowSlots :
       ~isnan(fire.tempWindow[i]) /\ ~isnan(fire.humidityWindow[i])
  /\ ~isnan(fire.currentData.temperature) /\ ~isnan(fire.currentData.humidity)
  /\ \A i \in BaselineSlots :
       /\ ~isnan(water.ph_baseline[i])
       /\ ~isnan(water.turbidity_baseline[i])
       /\ ~isnan(water.do_baseline[i])
       /\ ~isnan(water.conductivity_baseline[i])
  /\ ~isnan(water.currentData.airTemp) /\ ~isnan(water.currentData.humidity)
  /\ ~isnan(water.currentData.pH) /\ ~isnan(water.currentData.turbidity)
  /\ ~isnan(water.currentData.dissolvedOxygen)
  /\ ~isnan(water.currentData.conductivity)

\* A failed read that follows a good one.
C12_FailedAfterGoodRead ==
  /\ fw = "soil"
  /\ ReadFailed \in soil.log
  /\ Len(hist.pushed) >= 1

RECURSIVE PushedSum(_, _)
PushedSum(pushed, field) ==
  IF pushed = << >> THEN 0 ELSE Head(pushed)[field] + PushedSum(Tail(pushed), field)

\* C13: after k >= 1 pushes each filtered value of the soil firmware is the
\* arithmetic mean of the last min(BUFFER_SIZE, k) pushed values, and once the
\* buffer is full it holds exactly those values, the oldest in the slot to be
\* overwritten next.
C13_MeanOfLastPushes ==
  fw = "soil" /\ Len(hist.pushed) >= 1 =>
    /\ getFilteredMoisture(soil) * Len(hist.pushed) = PushedSum(hist.pushed, "moisture")
    /\ getFilteredTemp(soil) * Len(hist.pushed) = PushedSum(hist.pushed, "temp")
    /\ getFilteredHumidity(soil) * Len(hist.pushed) = PushedSum(hist.pushed, "humidity")
    /\ Len(hist.pushed) = BUFFER_SIZE =>
         \A j \in BufferSlots :
           soil.moistureBuffer[(soil.bufferIndex + j) % BUFFER_SIZE]
             = hist.pushed[j + 1].moisture

BaselineUnchanged ==
  /\ water'.ph_baseline = water.ph_baseline
  /\ water'.turbidity_baseline = water.turbidity_baseline
  /\ water'.do_baseline = water.do_baseline
  /\ water'.conductivity_baseline = water.conductivity_baseline
  /\ water'.baselineCounter = water.baselineCounter
  /\ water'.ph_baseline_avg = water.ph_baseline_avg
  /\ water'.turbidity_baseline_avg = water.turbidity_baseline_avg
  /\ water'.do_baseline_avg = water.do_baseline_avg
  /\ water'.conductivity_baseline_avg = water.conductivity_baseline_avg
  /\ water'.baselineComplete

\* C14: the baseline is complete exactly after BASELINE_READINGS calls of
\* updateBaselineCharacterization; each average then is the arithmetic mean of
\* the BASELINE_READINGS readings stored (an average is counted in
\* 1/BASELINE_READINGS, so the mean is the sum of the readings); from then on
\* baselineComplete stays true, a further call changes nothing, and arrays,
\* counter and averages keep their values.
C14_BaselineMeanThenFrozen ==
  [][fw = "water" =>
       /\ water'.baselineComplete <=> Len(hist'.stored) = BASELINE_READINGS
       /\ water'.baselineComplete =>
            /\ water'.ph_baseline_avg = PushedSum(hist'.stored, "pH")
            /\ water'.turbidity_baseline_avg = PushedSum(hist'.stored, "turbidity")
            /\ water'.do_baseline_avg = PushedSum(hist'.stored, "dissolvedOxygen")
            /\ water'.conductivity_baseline_avg = PushedSum(hist'.stored, "conductivity")
            /\ updateBaselineCharacterization(water') = water'
       /\ water.baselineComplete => BaselineUnchanged]_vars

\* A pass after the one that completed a baseline of unequal readings.
C14_PassAfterBaseline ==
  /\ fw = "water"
  /\ water.baselineComplete
  /\ "BASELINE CHARACTERIZATION COMPLETE" \notin water.log
  /\ water.ph_baseline[0] # water.ph_baseline[1]

\* C15: no buffer exceeds its capacity: bufferIndex is in 0..BUFFER_SIZE-1,
\* windowIndex in 0..WINDOW_SIZE-1, baselineCounter in 0..BASELINE_READINGS,
\* the slot a pass writes (the index before the pass; baselineCounter while the
\* baseline is incomplete) is below the capacity, and the buffers keep their
\* BUFFER_SIZE, WINDOW_SIZE and BASELINE_READINGS slots.
C15_IndicesWithinCapacity ==
  /\ soil.bufferIndex \in BufferSlots
  /\ DOMAIN soil.moistureBuffer = BufferSlots
  /\ DOMAIN soil.tempBuffer = BufferSlots
  /\ DOMAIN soil.humidityBuffer = BufferSlots
  /\ fire.windowIndex \in WindowSlots
  /\ DOMAIN fire.tempWindow = WindowSlots
  /\ water.baselineCounter \in 0 .. BASELINE_READINGS
  /\ ~water.baselineComplete => water.baselineCounter \in BaselineSlots
  /\ DOMAIN water.ph_baseline = BaselineSlots

\* The soil buffer has wrapped: a full buffer was pushed into again.
C15_BufferWrapped ==
  /\ fw = "soil"
  /\ Len(hist.pushed) = BUFFER_SIZE
  /\ soil.bufferIndex = 1
  /\ hist.pushed[1].moisture # soil.moistureBuffer[0]

(* ======================================================================== *)
(* PROPERTIES OF THE ALERT MESSAGES, COUNTERS AND ACTUATORS                 *)
(* ======================================================================== *)
\* C16: the activation message of an alert is printed only on a pass on which
\* the alert's flag goes from inactive to active, never on a pass that found
\* the alert active.
C16_MessageOnlyOnActivation ==
  [][/\ "ALERT 1" \in soil'.log
          => Rose(soil.irrigationAlertActive, soil'.irrigationAlertActive)
     /\ "ALERT 2" \in soil'.log
          => Rose(soil.heatStressAlertActive, soil'.heatStressAlertActive)
     /\ "ALERT 3" \in soil'.log
          => Rose(soil.phImbalanceAlertActive, soil'.phImbalanceAlertActive)
     /\ "LEVEL 1 ALERT" \in fire'.log
          => Rose(fire.level1AlertActive, fire'.level1AlertActive)
     /\ "LEVEL 2 ALERT" \in fire'.log
          => Rose(fire.level2AlertActive, fire'.level2AlertActive)
     /\ "LEVEL 3 ALERT" \in fire'.log
          => Rose(fire.level3AlertActive, fire'.level3AlertActive)
     /\ "CAUTION" \in water'.log
          => Rose(water.cautionAlertActive, water'.cautionAlertActive)
     /\ "CRITICAL ALERT" \in water'.log
          => Rose(water.criticalAlertActive, water'.criticalAlertActive)]_vars

\* Level 1, latched active by a higher level before the pass, stays active on
\* the pass on which its own counter reaches the threshold: no message.
C16_SilentWhileActive ==
  /\ fw = "fire"
  /\ hist.level1
  /\ fire.level1AlertActive
  /\ fire.level1AlertCount = LEVEL1_DEBOUNCE
  /\ "LEVEL 1 ALERT" \notin fire.log

\* C17: every debounce counter is at most its threshold + 1.
C17_CountersCapped ==
  /\ soil.lowMoistureCount <= LOW_MOISTURE_DEBOUNCE + 1
  /\ soil.heatStressCount <= HEAT_STRESS_DEBOUNCE + 1
  /\ soil.phImbalanceCount <= PH_IMBALANCE_DEBOUNCE + 1
  /\ fire.level1AlertCount <= LEVEL1_DEBOUNCE + 1
  /\ fire.level2AlertCount <= LEVEL2_DEBOUNCE + 1
  /\ fire.level3AlertCount <= LEVEL3_DEBOUNCE + 1
  /\ water.cautionAlertCount <= CAUTION_DEBOUNCE + 1
  /\ water.criticalAlertCount <= CRITICAL_DEBOUNCE + 1

SoilAnyAlert ==
  \/ soil.irrigationAlertActive
  \/ soil.heatStressAlertActive
  \/ soil.phImbalanceAlertActive
FireAnyAlert ==
  fire.level1AlertActive \/ fire.level2AlertActive \/ fire.level3AlertActive
WaterAnyAlert == water.cautionAlertActive \/ water.criticalAlertActive

SoilActuatorsFollowFlags ==
  soil.pins.buzzer = SoilAnyAlert /\ soil.pins.alertLed = SoilAnyAlert
FireActuatorsFollowFlags ==
  /\ fire.pins.buzzer = FireAnyAlert
  /\ fire.pins.led1 = FireAnyAlert
  /\ fire.pins.led2 = (fire.level2AlertActive \/ fire.level3AlertActive)
  /\ fire.pins.led3 = fire.level3AlertActive
WaterLedsFollowFlags ==
  /\ water.pins.ledNormal = ~WaterAnyAlert
  /\ water.pins.ledCaution = WaterAnyAlert
  /\ water.pins.ledCritical = water.criticalAlertActive
WaterLedsOff ==
  ~water.pins.ledNormal /\ ~water.pins.ledCaution /\ ~water.pins.ledCritical

\* C18 as stated: at the end of every pass the buzzer (and the soil alert
\* LED) is on iff some alert flag is active, and the LEDs are the pattern the
\* alert flags of that pass determine.
C18_ActuatorsFollowFlags ==
  /\ fw = "soil" => SoilActuatorsFollowFlags
  /\ fw = "fire" => FireActuatorsFollowFlags
  /\ fw = "water" /\ Len(hist.stored) >= 1 =>
       water.pins.buzzer = WaterAnyAlert /\ WaterLedsFollowFlags

\* A pass of the water firmware that began with the baseline complete.
WaterDetectionPass ==
  /\ water.baselineComplete
  /\ "BASELINE CHARACTERIZATION COMPLETE" \notin water.log

\* C18 amended: as stated for the buzzers, the soil LED and the fire LEDs; the
\* water LEDs are the pattern of the alert flags at the end of every pass that
\* began with the baseline complete, and are all off until then.
C18_ActuatorsFollowFlagsOnceDriven ==
  /\ fw = "soil" => SoilActuatorsFollowFlags
  /\ fw = "fire" => FireActuatorsFollowFlags
  /\ fw = "water" =>
       /\ water.pins.buzzer = WaterAnyAlert
       /\ WaterDetectionPass => WaterLedsFollowFlags
       /\ ~WaterDetectionPass => WaterLedsOff

\* Critical active with caution inactive: the caution LED is lit all the same.
C18_CriticalWithoutCaution ==
  /\ fw = "water"
  /\ water.criticalAlertActive
  /\ ~water.cautionAlertActive
  /\ water.pins.ledCaution

FireLit(f) ==
  {l \in {"led1", "led2", "led3"} : f.pins[l]}
WaterLit(w) ==
  {l \in {"ledNormal", "ledCaution", "ledCritical"} : w.pins[l]}
WaterAlarmLit(w) ==
  {l \in {"ledCaution", "ledCritical"} : w.pins[l]}

\* C19 as stated: between two passes the set of lit LEDs grows with the alert
\* level (the highest active level) and shrinks with it, for the three fire
\* LEDs and for the three water LEDs.
C19_LedsMonotoneInLevel ==
  [][/\ fw = "fire" =>
          /\ FireHighestActive(fire) < FireHighestActive(fire')
               => FireLit(fire) \subseteq FireLit(fire')
          /\ FireHighestActive(fire') < FireHighestActive(fire)
               => FireLit(fire') \subseteq FireLit(fire)
     /\ fw = "water" =>
          /\ WaterHighestActive(water) < WaterHighestActive(water')
               => WaterLit(water) \subseteq WaterLit(water')
          /\ WaterHighestActive(water') < WaterHighestActive(water)
               => WaterLit(water') \subseteq WaterLit(water)]_vars

\* C19 amended: as stated for the three fire LEDs and for the caution and
\* critical LEDs of the water firmware; the normal LED of the water firmware
\* is off at every level above 0.
C19_AlarmLedsMonotoneInLevel ==
  [][/\ fw = "fire" =>
          /\ FireHighestActive(fire) < FireHighestActive(fire')
               => FireLit(fire) \subseteq FireLit(fire')
          /\ FireHighestActive(fire') < FireHighestActive(fire)
               => FireLit(fire') \subseteq FireLit(fire)
     /\ fw = "water" =>
          /\ WaterHighestActive(water) < WaterHighestActive(water')
               => WaterAlarmLit(water) \subseteq WaterAlarmLit(water')
          /\ WaterHighestActive(water') < WaterHighestActive(water)
               => WaterAlarmLit(water') \subseteq WaterAlarmLit(water)
          /\ WaterHighestActive(water') > 0 => ~water'.pins.ledNormal]_vars

\* Level 2 reached from level 1: the level-1 LED stays lit under the level-2 LED.
C19_Level2AfterLevel1 ==
  /\ fw = "fire"
  /\ hist.level1 /\ ~hist.level2
  /\ FireHighestActive(fire) = 2
  /\ FireLit(fire) = {"led1", "led2"}

(* ======================================================================== *)
(* PROPERTIES OF THE CALIBRATIONS                                           *)
(* ======================================================================== *)
\* The voltage of an ADC count, in 1/PhScale volt.
PhVoltage(adcValue) == adcValue * ((33 * PhScale) \div (10 * ADC_MAX))

\* The pH on the straight line through the two reference points (1.5 V, pH 7)
\* and (2.0 V, pH 4), constrained to 0..14 as the readings are.
PhOnReferenceLine(voltage) ==
  LET pH4_voltage == 2 * PhScale
      pH7_voltage == (15 * PhScale) \div 10
      slope       == ((4 - 7) * PhScale) \div (pH4_voltage - pH7_voltage)
  IN  constrain(7 * PhScale + (voltage - pH7_voltage) * slope, 0, 14 * PhScale)

\* C20: calibratePH is the linear interpolation through its two reference
\* points, pH 7.0 at 1.5 V and pH 4.0 at 2.0 V: every pH reading stored is the
\* pH of its voltage on that line.
C20_PhOnReferenceLine ==
  /\ fw = "soil" /\ Len(hist.pushed) >= 1
       => soil.currentData.pH = PhOnReferenceLine(PhVoltage(hist.phRaw))
  /\ fw = "water" /\ hist.phRaw # 0
       => water.currentData.pH = PhOnReferenceLine(PhVoltage(hist.phRaw))

\* C21: for every ADC count 0 .. ADC_MAX and every temperature, each reading
\* returned by a calibration function lies in its physical range: moisture in
\* [0,100], pH in [0,14], turbidity in [0,40], dissolved oxygen in [0,15],
\* conductivity in [0,3000], MQ-2 ppm in [0,500], MQ-7 ppm in [0,100].
C21_ReadingsInPhysicalRange ==
  fw = "bench" =>
    /\ bench.cal.moisture \in 0 .. (100 * MoistureScale)
    /\ bench.cal.pH \in 0 .. (14 * PhScale)
    /\ bench.cal.turbidity \in 0 .. (40 * TurbidityScale)
    /\ bench.cal.dissolvedOxygen \in 0 .. (15 * DoScale)
    /\ bench.cal.conductivity \in 0 .. (3000 * ConductivityScale)
    /\ bench.cal.mq2_ppm \in 0 .. (500 * PpmScale)
    /\ bench.cal.mq7_ppm \in 0 .. (100 * PpmScale)

\* The sweep has reached counts whose pH and dissolved oxygen were cut back to
\* the upper ends of their ranges.
C21_ClampedAtFullScale ==
  /\ fw = "bench"
  /\ bench.cal.raw = ADC_MAX
  /\ bench.cal.temperature > 20
  /\ bench.cal.pH = 14 * PhScale
  /\ bench.cal.dissolvedOxygen = 15 * DoScale
  /\ bench.cal.moisture = 0

C23_ScoresInRange ==
  fw = "bench" /\ bench.scored =>
    /\ q_ph(bench.data) \in 0 .. (100 * SubScoreScale)
    /\ q_turbidity(bench.data) \in 0 .. (100 * SubScoreScale)
    /\ q_do(bench.data) \in 0 .. (100 * SubScoreScale)
    /\ q_conductivity(bench.data) \in 0 .. (100 * SubScoreScale)
    /\ bench.data.wqi = wqi(bench.data)
    /\ bench.data.wqi \in 0 .. (100 * WqiScale)

\* Readings at the ends of the ranges: pH 14, turbidity 40, no oxygen,
\* conductivity 3000 give index 0.
C23_WorstWater ==
  /\ fw = "bench" /\ bench.scored
  /\ bench.data.pH = 14 * PhScale
  /\ bench.data.turbidity = 40 * TurbidityScale
  /\ bench.data.dissolvedOxygen = 0
  /\ bench.data.conductivity = 3000 * ConductivityScale
  /\ bench.data.wqi = 0

\* C24: qualityRating is the bucket of wqi with inclusive lower breakpoints
\* (0 from 90, 1 from 70, 2 from 50, 3 from 25, else 4), and of two scorings
\* the one with the lower index never has the better rating.
C24_RatingIsBucket ==
  [][fw = "bench" /\ scene = "scoring" =>
       /\ (bench'.data.qualityRating = 0) = (bench'.data.wqi >= 90 * WqiScale)
       /\ (bench'.data.qualityRating = 1) =
            (bench'.data.wqi >= 70 * WqiScale /\ bench'.data.wqi < 90 * WqiScale)
       /\ (bench'.data.qualityRating = 2) =
            (bench'.data.wqi >= 50 * WqiScale /\ bench'.data.wqi < 70 * WqiScale)
       /\ (bench'.data.qualityRating = 3) =
            (bench'.data.wqi >= 25 * WqiScale /\ bench'.data.wqi < 50 * WqiScale)
       /\ (bench'.data.qualityRating = 4) = (bench'.data.wqi < 25 * WqiScale)
       /\ (bench.scored /\ bench'.data.wqi <= bench.data.wqi)
            => bench'.data.qualityRating >= bench.data.qualityRating]_vars

\* Readings whose index is exactly 90 are rated 0.
C24_ExactlyNinety ==
  /\ fw = "bench" /\ bench.scored
  /\ bench.data.wqi = 90 * WqiScale
  /\ bench.data.qualityRating = 0

(* ======================================================================== *)
(* SCENARIOS                                                                *)
(* ======================================================================== *)
\* C25: from a completed baseline with no alert and counters 0, a pass with
\* pH 9.2 as the only indicator leaves cautionAlertCount = 1, caution inactive
\* and level 0; a second such pass makes caution active with alertLevel = 1; a
\* third pass with no indicator leaves caution inactive, cautionAlertCount = 0
\* and alertLevel = 0.
C25_CautionScenario ==
  fw = "water" =>
    /\ hist.stage = 1 =>
         /\ water.cautionAlertCount = 1
         /\ ~water.cautionAlertActive
         /\ water.currentData.alertLevel = 0
    /\ hist.stage = 2 =>
         /\ water.cautionAlertActive
         /\ water.currentData.alertLevel = 1
    /\ hist.stage = 3 =>
         /\ ~water.cautionAlertActive
         /\ water.cautionAlertCount = 0
         /\ water.currentData.alertLevel = 0

\* The third pass of the scenario has run: caution, active before it, is off.
C25_ScenarioCompleted ==
  /\ fw = "water"
  /\ hist.stage = 3
  /\ hist.caution
  /\ ~water.cautionAlertActive

\* C26: from the initial state, level 1 is inactive after each of the first
\* four passes with two indicators and becomes active on the fifth; a
\* following pass with four indicators activates level 3 on that pass and
\* leaves levels 1 and 2 active; the next pass with fewer than two indicators
\* leaves all three levels inactive and alertLevel = 0.
C26_EscalationScenario ==
  fw = "fire" =>
    /\ hist.stage \in 1 .. (LEVEL1_DEBOUNCE - 1) => ~fire.level1AlertActive
    /\ hist.stage = LEVEL1_DEBOUNCE =>
         fire.level1AlertActive /\ ~hist.level1
    /\ hist.stage = LEVEL1_DEBOUNCE + 1 =>
         /\ fire.level3AlertActive /\ ~hist.level3
         /\ fire.level2AlertActive
         /\ fire.level1AlertActive
    /\ hist.stage = LEVEL1_DEBOUNCE + 2 =>
         /\ ~fire.level1AlertActive
         /\ ~fire.level2AlertActive
         /\ ~fire.level3AlertActive
         /\ fire.currentData.alertLevel = 0

\* The last pass of the scenario has run: level 3, active before it, is off.
C26_ScenarioCompleted ==
  /\ fw = "fire"
  /\ hist.stage = LEVEL1_DEBOUNCE + 2
  /\ hist.level3
  /\ ~fire.level3AlertActive

\* C27: an active irrigation alert stays active on every pass whose filtered
\* moisture is at most MOISTURE_THRESHOLD_HIGH, and goes inactive, with
\* lowMoistureCount reset to 0, on a pass whose filtered moisture is above it.
C27_LowMoistureHysteresis ==
  [][fw = "soil" /\ soil.irrigationAlertActive =>
       /\ soil'.irrigationAlertActive
            = (getFilteredMoisture(soil') <= MOISTURE_THRESHOLD_HIGH)
       /\ getFilteredMoisture(soil') > MOISTURE_THRESHOLD_HIGH
            => soil'.lowMoistureCount = 0]_vars

\* The alert, active before the pass, is still active after a pass in the
\* dead zone.
C27_HeldInDeadZone ==
  /\ fw = "soil"
  /\ hist.irrigation
  /\ soil.irrigationAlertActive
  /\ getFilteredMoisture(soil) >= MOISTURE_THRESHOLD_LOW
  /\ getFilteredMoisture(soil) <= MOISTURE_THRESHOLD_HIGH

\* The indicators evaluateFireIndicators counts, and the four environmental
\* ones among them.
FireIndicatorsTrue(f) ==
  {i \in {"tempHigh", "humidityLow", "mq2Elevated", "mq7Elevated", "smokePresent"} :
     f.indicators[i]}
FireEnvironmentalTrue(f) == FireIndicatorsTrue(f) \ {"smokePresent"}

\* C28: level 3 becomes active only on a pass on which every indicator that
\* evaluateFireIndicators counts is true.
C28_Level3OnlyWhenAllTrue ==
  [][fw = "fire" /\ Rose(fire.level3AlertActive, fire'.level3AlertActive)
       => Cardinality(FireIndicatorsTrue(fire')) = 5]_vars

\* C29: level1AlertCount is incremented only on passes on which at least 2 of
\* the 4 environmental indicators are true.
C29_Level1NeedsTwoEnvironmental ==
  [][fw = "fire" /\ fire'.level1AlertCount = fire.level1AlertCount + 1
       => Cardinality(FireEnvironmentalTrue(fire')) >= 2]_vars

\* C30: on a pass on which the irrigation alert becomes active with the motor
\* not running, the motor is running at the end of the pass and motorStartTime
\* is the time of the pass.
C30_StartSurvivesThePass ==
  [][fw = "soil"
       /\ Rose(soil.irrigationAlertActive, soil'.irrigationAlertActive)
       /\ ~soil.motorRunning
       => /\ soil'.motorRunning
          /\ soil'.pins.motor
          /\ soil'.motorStartTime = soil'.now]_vars

\* The alert rose on the latest pass and the motor, off before it, runs.
C30_StartedOnActivation ==
  /\ fw = "soil"
  /\ ~hist.irrigation /\ soil.irrigationAlertActive
  /\ ~hist.motor /\ soil.motorRunning
  /\ soil.motorStartTime = soil.now

(* ======================================================================== *)
(* PROPERTIES OF THE BASELINE PHASE AND OF THE IMMEDIATE TIERS              *)
(* ======================================================================== *)
\* No alert, counters 0, level 0, LEDs and buzzer as setup() left them.
WaterQuiet(w) ==
  /\ ~w.cautionAlertActive /\ ~w.criticalAlertActive
  /\ w.cautionAlertCount = 0 /\ w.criticalAlertCount = 0
  /\ w.currentData.alertLevel = 0
  /\ ~w.pins.ledNormal /\ ~w.pins.ledCaution /\ ~w.pins.ledCritical
  /\ ~w.pins.buzzer

\* Detection has run on the readings of the pass and driven the LEDs.
WaterDetected(w) ==
  /\ w.indicators = evaluateQualityIndicators(w).indicators
  /\ w.pins.ledNormal \/ w.pins.ledCaution \/ w.pins.ledCritical

\* C31: every pass begun with baselineComplete false, the one that completes
\* the baseline included, leaves no alert active, both counters 0, alertLevel
\* 0 and the LEDs and buzzer undriven; every pass begun with baselineComplete
\* true runs the detection.
C31_NoDetectionDuringBaseline ==
  [][fw = "water" =>
       /\ ~water.baselineComplete => WaterQuiet(water')
       /\ water.baselineComplete => WaterDetected(water')]_vars

\* The pass that completed the baseline read a pH beyond the critical bound
\* and raised nothing.
C31_AlarmingReadingDuringBaseline ==
  /\ fw = "water"
  /\ water.baselineComplete
  /\ "BASELINE CHARACTERIZATION COMPLETE" \in water.log
  /\ water.currentData.pH > PH_CRITICAL_MAX
  /\ WaterQuiet(water)

\* C32: at the end of every detection pass of the water firmware
\* criticalAlertActive is true iff a critical-band predicate holds of the
\* readings, which then also count at least one indicator; at the end of every
\* pass of the fire firmware level3AlertActive is true iff fireIndicators >= 4.
C32_ImmediateTiersTrackPredicate ==
  /\ fw = "water" /\ WaterDetectionPass =>
       /\ water.criticalAlertActive = CriticalPredicate(water)
       /\ CriticalPredicate(water) => ActiveIndicators(water) >= 1
  /\ fw = "fire" =>
       fire.level3AlertActive = (fire.currentData.fireIndicators >= LEVEL3_INDICATORS)

\* Critical, active before the pass, is off after a pass whose readings are
\* outside the optimal band only.
C32_CriticalDropped ==
  /\ fw = "water" /\ WaterDetectionPass
  /\ hist.critical
  /\ ~water.criticalAlertActive
  /\ ActiveIndicators(water) >= 1
----------------------------------------------------------------------------
(* THE TEMPERATURE RATE OF CHANGE *)

WindowFull == Len(hist.temps) = WINDOW_SIZE + 1
FireReadSucceeded == fw = "fire" /\ hist.temps # << >> /\ ReadFailed \notin fire.log

\* C33: once WINDOW_SIZE earlier samples exist, the rate of change stored by a
\* successful read is the current temperature minus the temperature read
\* WINDOW_SIZE samples earlier (over 5 s); it is never the 'not enough data' 0
\* and never a difference against a zero-initial slot.
C33_RateAgainstWindowSizeEarlier ==
  FireReadSucceeded /\ WindowFull =>
    fire.currentData.tempRate =
      ((fire.currentData.temperature - hist.temps[1]) * TempRateScale) \div 5

\* The window is full, the index has wrapped to 0, and the temperature has
\* moved since WINDOW_SIZE samples earlier, yet the stored rate is 0.
C33_ZeroRateOnFullWindow ==
  /\ FireReadSucceeded /\ WindowFull
  /\ fire.windowIndex = 0
  /\ fire.currentData.temperature # hist.temps[1]
  /\ fire.currentData.tempRate = 0

\* What the code does compute: 0 whenever the index has wrapped to 0, and
\* otherwise the difference against the slot the next sample will overwrite,
\* which is the reading WINDOW_SIZE - 1 samples earlier once that many exist
\* and the zero initial value before.
C33_RateAsComputed ==
  FireReadSucceeded =>
    fire.currentData.tempRate =
      IF fire.windowIndex = 0 THEN 0
      ELSE IF Len(hist.temps) >= WINDOW_SIZE
           THEN ((fire.currentData.temperature
                   - hist.temps[Len(hist.temps) - (WINDOW_SIZE - 1)])
                  * TempRateScale) \div 5
           ELSE (fire.currentData.temperature * TempRateScale) \div 5

----------------------------------------------------------------------------
(* THE MOTOR AND THE IRRIGATION ALERT *)

\* C34: at the end of every soil pass a running motor implies an active
\* irrigation alert.
C34_MotorOnlyUnderAlert ==
  fw = "soil" => (soil.motorRunning => soil.irrigationAlertActive)

\* The alert was cleared by a pass that found the motor running, and the same
\* pass stopped the motor.
C34_AlertClearedWhileRunning ==
  /\ fw = "soil"
  /\ hist.motor /\ hist.irrigation
  /\ ~soil.irrigationAlertActive /\ ~soil.motorRunning
  /\ "MOTOR STOPPED EARLY" \in soil.log

----------------------------------------------------------------------------
(* BEFORE THE FIRST SUCCESSFUL READ *)

SoilAllInactive ==
  /\ ~soil.irrigationAlertActive /\ ~soil.heatStressAlertActive
  /\ ~soil.phImbalanceAlertActive /\ ~soil.motorRunning
FireAllInactive ==
  ~fire.level1AlertActive /\ ~fire.level2AlertActive /\ ~fire.level3AlertActive
WaterAllInactive == ~water.cautionAlertActive /\ ~water.criticalAlertActive

\* C35: as long as no read has succeeded since reset, every soil, fire and
\* water alert flag is inactive and the motor is not running.
C35_NoAlertBeforeFirstRead ==
  ~hist.read =>
    /\ fw = "soil" => SoilAllInactive
    /\ fw = "fire" => FireAllInactive
    /\ fw = "water" => WaterAllInactive

\* What holds: the fire firmware stays quiet (the zero-initialised reading
\* counts one indicator, humidityLow). The soil firmware starts the motor and
\* the water firmware raises an alert on stale zero readings.
C35_FireQuietBeforeFirstRead == fw = "fire" /\ ~hist.read => FireAllInactive
C35_SoilMotorBeforeFirstRead ==
  fw = "soil" /\ ~hist.read /\ soil.irrigationAlertActive /\ soil.motorRunning
C35_WaterAlertBeforeFirstRead == fw = "water" /\ ~hist.read /\ ~WaterAllInactive

----------------------------------------------------------------------------
(* ACTIVATION EVENTS *)

\* A flag that was inactive before the latest pass and is active after it
\* had its message printed by the pass.
Announced(before, after, log, message) == ~before /\ after => message \in log

SoilActivationsAnnounced ==
  /\ Announced(hist.irrigation, soil.irrigationAlertActive, soil.log, "ALERT 1")
  /\ Announced(hist.heatStress, soil.heatStressAlertActive, soil.log, "ALERT 2")
  /\ Announced(hist.phImbalance, soil.phImbalanceAlertActive, soil.log, "ALERT 3")
WaterActivationsAnnounced ==
  /\ Announced(hist.caution, water.cautionAlertActive, water.log, "CAUTION")
  /\ Announced(hist.critical, water.criticalAlertActive, water.log, "CRITICAL ALERT")
FireLowerActivationsAnnounced ==
  /\ Announced(hist.level1, fire.level1AlertActive, fire.log, "LEVEL 1 ALERT")
  /\ Announced(hist.level2, fire.level2AlertActive, fire.log, "LEVEL 2 ALERT")
FireLevel3ActivationAnnounced ==
  Announced(hist.level3, fire.level3AlertActive, fire.log, "LEVEL 3 ALERT")

\* C36: every pass on which a tier's flag goes from inactive to active prints
\* that tier's activation message, the fire levels 1 and 2 switched on by a
\* higher level included.
C36_EveryActivationAnnounced ==
  /\ fw = "soil" => SoilActivationsAnnounced
  /\ fw = "water" => WaterActivationsAnnounced
  /\ fw = "fire" => FireLowerActivationsAnnounced /\ FireLevel3ActivationAnnounced

\* What holds: every activation is announced but those of fire levels 1 and 2
\* switched on by a higher level.
C36_OwnActivationsAnnounced ==
  /\ fw = "soil" => SoilActivationsAnnounced
  /\ fw = "water" => WaterActivationsAnnounced
  /\ fw = "fire" =>
        /\ FireLevel3ActivationAnnounced
        /\ ~hist.level2 /\ fire.level2AlertActive /\ ~fire.level3AlertActive
              => "LEVEL 2 ALERT" \in fire.log
        /\ ~hist.level1 /\ fire.level1AlertActive /\ ~fire.level2AlertActive
              => "LEVEL 1 ALERT" \in fire.log

\* Level 3 rises on a first pass of four indicators and switches levels 1 and
\* 2 on with it; neither message of the lower levels is printed.
C36_LowerLevelsSilentlyActive ==
  /\ fw = "fire" /\ ~hist.level1 /\ ~hist.level2 /\ ~hist.level3
  /\ fire.level1AlertActive /\ fire.level2AlertActive /\ fire.level3AlertActive
  /\ "LEVEL 3 ALERT" \in fire.log
  /\ "LEVEL 1 ALERT" \notin fire.log /\ "LEVEL 2 ALERT" \notin fire.log

----------------------------------------------------------------------------
(* THE WATER TELEMETRY RECORD *)

WaterPublished == fw = "water" /\ Published \in water.log

\* C37: in every published water record quality_rating is the bucket of
\* water_quality_index, the records published during the baseline phase
\* included.
C37_RatingMatchesIndex ==
  WaterPublished =>
    water.published.quality_rating = qualityRating(water.published.water_quality_index)

\* What holds: the records of the detection passes are consistent, and the
\* records published before the first detection pass carry index 0 with
\* rating 0.
C37_RatingAsPublished ==
  WaterPublished =>
    IF water.published.baseline_complete
         /\ "BASELINE CHARACTERIZATION COMPLETE" \notin water.log
    THEN water.published.quality_rating
           = qualityRating(water.published.water_quality_index)
    ELSE water.published.water_quality_index = 0
           /\ water.published.quality_rating = 0

\* A record published by a detection pass.
C37_PublishedAfterScoring ==
  /\ WaterPublished /\ WaterDetectionPass
  /\ water.published.water_quality_index > 0
  /\ water.published.quality_rating = qualityRating(water.published.water_quality_index)

----------------------------------------------------------------------------
(* THE SOIL TELEMETRY FLAGS *)

\* C38: at the end of every soil pass the telemetry flags of currentData equal
\* the alert flags and the motor state, and the record published by the pass
\* carries them.
C38_TelemetryMirrorsState ==
  fw = "soil" =>
    /\ soil.currentData.irrigationAlert = soil.irrigationAlertActive
    /\ soil.currentData.heatStressAlert = soil.heatStressAlertActive
    /\ soil.currentData.phAlert = soil.phImbalanceAlertActive
    /\ soil.currentData.motorStatus = soil.motorRunning
    /\ tick > 0 =>
          /\ soil.published.irrigation_alert = soil.irrigationAlertActive
          /\ soil.published.heat_stress_alert = soil.heatStressAlertActive
          /\ soil.published.pH_alert = soil.phImbalanceAlertActive
          /\ soil.published.motor_status = soil.motorRunning

\* A pass that cleared the heat-stress alert while the motor runs under the
\* irrigation alert.
C38_HeatStressClearedMotorRunning ==
  /\ fw = "soil"
  /\ hist.heatStress /\ ~soil.heatStressAlertActive
  /\ soil.motorRunning /\ soil.published.motor_status
  /\ ~soil.published.heat_stress_alert

----------------------------------------------------------------------------
(* THE MOTOR TIMER ACROSS THE WRAP OF millis() *)

\* C39: a motor that was running when a pass began, and is not stopped by the
\* early exit, is off after the pass exactly when at least MOTOR_RUNTIME has
\* passed since its start, also when millis() has wrapped in between; a motor
\* started by the pass is still running after it.
C39_TimerCorrectAcrossWrap ==
  fw = "soil" =>
    /\ hist.motor /\ "MOTOR STOPPED EARLY" \notin soil.log =>
          (~soil.motorRunning <=> hist.ran >= MOTOR_RUNTIME)
    /\ "MOTOR STARTED" \in soil.log => soil.motorRunning

\* The motor was started before the wrap and the timer stopped it after, on a
\* pass following one on which it was still running after the wrap.
C39_StoppedAfterWrap ==
  /\ fw = "soil" /\ scene = "wrap"
  /\ hist.motor /\ "MOTOR STOPPED" \in soil.log
  /\ soil.now < soil.motorStartTime
  /\ soil.now >= 2 * SOIL_SENSOR_INTERVAL
  /\ hist.ran >= MOTOR_RUNTIME

====
